---- MODULE Spec2Model ----
(***************************************************************************)
(* BudgetWise: the ingestion and categorization pipeline (app.py           *)
(* DataProcessor and upload, utils/data_processor.py DataProcessor).       *)
(*                                                                         *)
(* Python values are modelled as follows.  A cell of the DataFrame read    *)
(* from the CSV is a record [nan, s]: nan is TRUE for an empty cell (the   *)
(* float NaN pandas puts there), s is the text of the cell otherwise.  A   *)
(* float is [nan, v] with v an integer number of rupees; a date is         *)
(* [nat, y, m, d] with nat TRUE for pandas' NaT.  The result of a call     *)
(* that may raise is a record with the field raised.                       *)
(***************************************************************************)
EXTENDS Integers, Sequences, FiniteSets, TLC

VARIABLES
    arg_description, \* the argument of the classifier call under test
    app_category,    \* outcome of app.DataProcessor.categorize_transaction
    utils_category,  \* outcome of utils DataProcessor._categorize_transaction
    decodable,       \* the encodings under which pd.read_csv reads the file given
    df,              \* the table of the file given: [columns, rows]
    csv_result,      \* outcome of the last app.DataProcessor.process_csv call
    utils_result,    \* outcome of utils DataProcessor.process_transactions
    stored,          \* the committed Transaction rows of current_user, in insert order
    response,        \* the JSON response of the last POST /upload
    upload_folder,   \* the files upload() has saved and not removed
    uploads,         \* number of POST /upload requests handled
    environment,     \* the libraries installed and the artifact files under models/
    predictor,       \* the LSTMPredictor constructed: its model and scaler
    history,         \* the DataFrame of transactions given to the forecasting engine
    days,            \* the horizon asked of predict_spending
    daily_data,      \* the daily series prepare_data returned to predict_spending
    lstm_result,     \* what lstm_prediction returned to predict_spending
    predict_calls,   \* model.predict calls made by the last predict_spending
    result,          \* outcome of the last LSTMPredictor.predict_spending call
    predict_response, \* the JSON response of the last POST /predict
    artifact_loads,  \* artifact files read from storage by this process, per file
    serving,         \* the POST /predict requests of this process, each at its position
    database,        \* what the training script queries: the users and the first
                     \* user's expense transactions, ordered by date
    training         \* the outcome of each training entry point, once called

forecast_vars == << environment, predictor, history, days, daily_data, lstm_result,
                    predict_calls, result, predict_response >>

serve_vars == << artifact_loads, serving >>

train_vars == << database, training >>

vars == << arg_description, app_category, utils_category, decodable, df,
           csv_result, utils_result, stored, response, upload_folder, uploads,
           forecast_vars, serve_vars, train_vars >>

(***************************************************************************)
(* Bounds of the model.                                                    *)
(***************************************************************************)
MaxWords == 2       \* words in a description given to the classifier
MaxRows == 2        \* rows of a table given to process_csv
MaxUploadRows == 2  \* rows of an uploaded file
MaxUploads == 2     \* POST /upload requests in one behaviour
MaxHistory == 2     \* transactions of a history drawn row by row
MaxHorizon == 7     \* the longest horizon asked of predict_spending
MaxRequests == 2    \* POST /predict requests served by one process

(***************************************************************************)
(* Python str operations: str.lower, `in`, str.replace(p, ''), str.strip,  *)
(* slicing.                                                                *)
(***************************************************************************)
UpperLetters == "ABCDEFGHIJKLMNOPQRSTUVWXYZ"
LowerLetters == "abcdefghijklmnopqrstuvwxyz"

\* the lower-case letter of every upper-case letter
LowerOf ==
    [c \in { SubSeq(UpperLetters, i, i) : i \in 1..Len(UpperLetters) } |->
        LET i == CHOOSE j \in 1..Len(UpperLetters) : SubSeq(UpperLetters, j, j) = c
        IN  SubSeq(LowerLetters, i, i)]

LowerChar(c) == IF c \in DOMAIN LowerOf THEN LowerOf[c] ELSE c

RECURSIVE Lower(_)
Lower(s) == IF s = "" THEN "" ELSE LowerChar(Head(s)) \o Lower(Tail(s))

\* Python `kw in s` for strings
Contains(kw, s) ==
    \E i \in 1..(Len(s) - Len(kw) + 1) : SubSeq(s, i, i + Len(kw) - 1) = kw

(***************************************************************************)
(* The keyword tables, in declaration order (a Python dict iterates in     *)
(* insertion order).                                                       *)
(***************************************************************************)
app_categories ==
    << [category |-> "Food & Dining", keywords |-> <<
            "swiggy", "zomato", "restaurant", "food", "coffee", "lunch", "dinner",
            "breakfast", "cafe", "pizza", "burger", "biryani", "meals", "eat",
            "dominos", "mcdonalds", "kfc", "subway", "starbucks", "hotel",
            "dhaba", "canteen", "mess", "tiffin", "snacks", "juice", "bakery",
            "sweet"
        >>],
       [category |-> "Transportation", keywords |-> <<
            "uber", "ola", "rapido", "petrol", "fuel", "metro", "bus", "train",
            "cab", "taxi", "auto", "parking", "toll", "irctc", "flight", "diesel",
            "cng", "transit", "transport", "travel"
        >>],
       [category |-> "Shopping", keywords |-> <<
            "amazon", "flipkart", "myntra", "shopping", "mall", "store", "market",
            "fashion", "clothes", "shoes", "ajio", "nykaa", "meesho", "shop",
            "purchase", "buy", "ebay", "walmart", "retail"
        >>],
       [category |-> "Entertainment", keywords |-> <<
            "movie", "netflix", "hotstar", "spotify", "game", "cinema", "pvr",
            "inox", "bookmyshow", "youtube", "prime", "sony", "zee5", "theater",
            "concert", "event", "party", "club"
        >>],
       [category |-> "Utilities", keywords |-> <<
            "electricity", "water", "gas", "internet", "mobile", "bill",
            "recharge", "broadband", "wifi", "jio", "airtel", "vodafone", "dth",
            "electric", "postpaid", "prepaid", "landline", "maintenance"
        >>],
       [category |-> "Healthcare", keywords |-> <<
            "medical", "doctor", "hospital", "pharmacy", "medicine", "health",
            "clinic", "apollo", "fortis", "1mg", "pharmeasy", "gym", "fitness",
            "diagnostic", "lab", "test", "consultation", "treatment"
        >>],
       [category |-> "Groceries", keywords |-> <<
            "grocery", "bigbasket", "zepto", "blinkit", "vegetable", "fruit",
            "milk", "grofers", "dmart", "more", "reliance", "fresh", "mart",
            "supermarket", "kirana", "provision", "ration"
        >>],
       [category |-> "Education", keywords |-> <<
            "course", "udemy", "coursera", "school", "college", "book",
            "training", "class", "tuition", "fees", "exam", "study", "university",
            "academy", "institute", "education", "learning"
        >>],
       [category |-> "Investment", keywords |-> <<
            "mutual fund", "sip", "stock", "trading", "fd", "ppf", "investment",
            "zerodha", "groww", "upstox", "insurance", "lic", "policy", "deposit",
            "savings", "nps", "gold"
        >>],
       [category |-> "Transfer", keywords |-> <<
            "transfer", "upi", "neft", "imps", "paytm", "phonepe", "gpay",
            "google pay", "sent", "payment", "razorpay", "cashback", "refund"
        >>] >>

utils_categories ==
    << [category |-> "Food & Dining", keywords |-> <<
            "swiggy", "zomato", "restaurant", "cafe", "food", "dining", "lunch",
            "dinner", "breakfast", "snacks", "pizza", "burger", "coffee", "tea",
            "dominos", "mcdonalds"
        >>],
       [category |-> "Transportation", keywords |-> <<
            "uber", "ola", "rapido", "metro", "bus", "fuel", "petrol", "diesel",
            "parking", "toll", "cab", "auto", "train", "irctc", "flight",
            "indigo", "spicejet"
        >>],
       [category |-> "Shopping", keywords |-> <<
            "amazon", "flipkart", "myntra", "ajio", "shopping", "mall", "store",
            "market", "clothes", "shoes", "fashion", "electronics", "gadget",
            "decathlon", "ikea"
        >>],
       [category |-> "Entertainment", keywords |-> <<
            "movie", "netflix", "hotstar", "prime", "spotify", "book", "game",
            "pvr", "inox", "cinema", "concert", "event", "amusement", "park",
            "museum"
        >>],
       [category |-> "Utilities", keywords |-> <<
            "electricity", "water", "gas", "internet", "broadband", "mobile",
            "recharge", "bill", "airtel", "jio", "vodafone", "wifi", "dth",
            "tatasky", "maintenance"
        >>],
       [category |-> "Healthcare", keywords |-> <<
            "medical", "doctor", "hospital", "pharmacy", "medicine", "clinic",
            "health", "gym", "fitness", "yoga", "insurance", "apollo", "fortis",
            "medplus", "1mg", "pharmeasy"
        >>],
       [category |-> "Groceries", keywords |-> <<
            "grocery", "supermarket", "bigbasket", "grofers", "blinkit", "zepto",
            "dunzo", "vegetable", "fruit", "milk", "bread", "reliance fresh",
            "more", "dmart", "spencer"
        >>],
       [category |-> "Education", keywords |-> <<
            "school", "college", "university", "course", "tuition", "book",
            "udemy", "coursera", "upgrad", "byju", "unacademy", "fees", "exam",
            "certification"
        >>],
       [category |-> "Investment", keywords |-> <<
            "mutual fund", "sip", "stock", "trading", "zerodha", "groww",
            "upstox", "investment", "fd", "rd", "ppf", "nps", "gold", "crypto",
            "bitcoin"
        >>],
       [category |-> "Transfer", keywords |-> <<
            "upi", "transfer", "neft", "imps", "rtgs", "paytm", "phonepe", "gpay",
            "bhim", "send", "received"
        >>] >>

(***************************************************************************)
(* The classifier.  Both implementations run the same two nested loops     *)
(* and return at the first keyword found.                                  *)
(***************************************************************************)
None == [t |-> "none", s |-> ""]
Str(s) == [t |-> "str", s |-> s]

Returned(v) == [done |-> TRUE, raised |-> FALSE, value |-> v]
Raised(e) == [done |-> TRUE, raised |-> TRUE, value |-> e]
NotCalled == [done |-> FALSE, raised |-> FALSE, value |-> ""]

\* for keyword in keywords: if keyword in description: return category
RECURSIVE KeywordLoop(_, _, _)
KeywordLoop(keywords, i, d) ==
    IF i > Len(keywords) THEN FALSE
    ELSE IF Contains(keywords[i], d) THEN TRUE
    ELSE KeywordLoop(keywords, i + 1, d)

\* for category, keywords in categories.items(): ...; return 'Others'
\* (variant: the last matching category wins)
CategoryLoopLastWins(categories, i, d) ==
    LET hits == { j \in i..Len(categories) : KeywordLoop(categories[j].keywords, 1, d) }
    IN  IF hits = {} THEN "Others"
        ELSE categories[CHOOSE j \in hits : \A k \in hits : k <= j].category

\* for category, keywords in categories.items(): ...; return 'Others'
RECURSIVE CategoryLoop(_, _, _)
CategoryLoop(categories, i, d) ==
    IF i > Len(categories) THEN "Others"
    ELSE IF KeywordLoop(categories[i].keywords, 1, d) THEN categories[i].category
    ELSE CategoryLoop(categories, i + 1, d)

\* app.py: `if not description: return 'Others'`, then str(description).lower()
categorize_transaction(desc) ==
    IF desc.t = "none" \/ desc.s = "" THEN Returned("Others")
    ELSE Returned(CategoryLoop(app_categories, 1, Lower(desc.s)))

\* utils/data_processor.py: description.lower() with no guard; None has no
\* attribute lower
_categorize_transaction(desc) ==
    IF desc.t = "none" THEN Raised("AttributeError")
    ELSE Returned(CategoryLoop(utils_categories, 1, Lower(desc.s)))

Encodings == << "utf-8", "latin-1", "iso-8859-1", "cp1252" >>

(***************************************************************************)
(* More Python str operations.                                             *)
(***************************************************************************)
RECURSIVE LStrip(_)
LStrip(s) == IF s # "" /\ Head(s) = " " THEN LStrip(Tail(s)) ELSE s

RECURSIVE RStrip(_)
RStrip(s) ==
    IF s # "" /\ SubSeq(s, Len(s), Len(s)) = " "
    THEN RStrip(SubSeq(s, 1, Len(s) - 1))
    ELSE s

\* s.strip()
Strip(s) == RStrip(LStrip(s))

\* s.replace(old, new), old not empty
RECURSIVE Replace(_, _, _)
Replace(s, old, new) ==
    IF Len(s) < Len(old) THEN s
    ELSE IF SubSeq(s, 1, Len(old)) = old
         THEN new \o Replace(SubSeq(s, Len(old) + 1, Len(s)), old, new)
         ELSE Head(s) \o Replace(Tail(s), old, new)

\* s[:n]
Prefix(s, n) == IF Len(s) <= n THEN s ELSE SubSeq(s, 1, n)

Digits == "0123456789"

\* the value of every decimal digit
DigitValues ==
    [c \in { SubSeq(Digits, i, i) : i \in 1..Len(Digits) } |->
        (CHOOSE i \in 1..Len(Digits) : SubSeq(Digits, i, i) = c) - 1]

IsDigit(c) == c \in DOMAIN DigitValues

DigitValue(c) == DigitValues[c]

IsDigits(s) ==
    /\ s # ""
    /\ \A i \in 1..Len(s) : IsDigit(SubSeq(s, i, i))

RECURSIVE ParseNat(_)
ParseNat(s) ==
    IF s = "" THEN 0
    ELSE 10 * ParseNat(SubSeq(s, 1, Len(s) - 1)) + DigitValue(SubSeq(s, Len(s), Len(s)))

(***************************************************************************)
(* Python float.  float(s) accepts surrounding blanks, a sign and 'nan';   *)
(* of the number syntax the model reads integer literals, everything else  *)
(* raises ValueError (the cells of the model hold no decimals, exponents   *)
(* or infinities).                                                         *)
(***************************************************************************)
Number(v) == [nan |-> FALSE, v |-> v]
NaN == [nan |-> TRUE, v |-> 0]

Unsigned(s) == IF s # "" /\ Head(s) \in { "+", "-" } THEN Tail(s) ELSE s

float(s) ==
    LET t == Strip(s)
        u == Unsigned(t)
    IN  IF Lower(u) = "nan" THEN Returned(NaN)
        ELSE IF IsDigits(u)
             THEN Returned(Number(IF Head(t) = "-" THEN 0 - ParseNat(u) ELSE ParseNat(u)))
             ELSE Raised("ValueError")

\* abs(x); abs(nan) is nan
abs(x) == IF x.nan THEN x ELSE Number(IF x.v < 0 THEN 0 - x.v ELSE x.v)

\* x <= 0; every comparison with nan is False
LeZero(x) == ~x.nan /\ x.v <= 0

\* x > 0
GtZero(x) == ~x.nan /\ x.v > 0

(***************************************************************************)
(* pd.to_datetime(s, dayfirst=True).date().  The model reads DD/MM/YYYY    *)
(* (day first) and YYYY-MM-DD; the strings pandas takes for a missing      *)
(* value give NaT, whose date() is NaT; every other text raises.           *)
(***************************************************************************)
Date(y, m, d) == [nat |-> FALSE, y |-> y, m |-> m, d |-> d]
NaT == [nat |-> TRUE, y |-> 0, m |-> 0, d |-> 0]

nat_strings == { "", "NaT", "nat", "NAT", "nan", "NaN", "NAN" }

IsLeap(y) == (y % 4 = 0 /\ y % 100 # 0) \/ y % 400 = 0

DaysInMonth(y, m) ==
    IF m = 2 THEN (IF IsLeap(y) THEN 29 ELSE 28)
    ELSE IF m \in { 4, 6, 9, 11 } THEN 30 ELSE 31

ValidDate(y, m, d) == y >= 1 /\ m \in 1..12 /\ d >= 1 /\ d <= DaysInMonth(y, m)

to_datetime_dayfirst(s) ==
    IF s \in nat_strings THEN Returned(NaT)
    ELSE IF /\ Len(s) = 10
            /\ SubSeq(s, 3, 3) = "/" /\ SubSeq(s, 6, 6) = "/"
            /\ IsDigits(SubSeq(s, 1, 2)) /\ IsDigits(SubSeq(s, 4, 5))
            /\ IsDigits(SubSeq(s, 7, 10))
            /\ ValidDate(ParseNat(SubSeq(s, 7, 10)), ParseNat(SubSeq(s, 4, 5)),
                         ParseNat(SubSeq(s, 1, 2)))
         THEN Returned(Date(ParseNat(SubSeq(s, 7, 10)), ParseNat(SubSeq(s, 4, 5)),
                            ParseNat(SubSeq(s, 1, 2))))
    ELSE IF /\ Len(s) = 10
            /\ SubSeq(s, 5, 5) = "-" /\ SubSeq(s, 8, 8) = "-"
            /\ IsDigits(SubSeq(s, 1, 4)) /\ IsDigits(SubSeq(s, 6, 7))
            /\ IsDigits(SubSeq(s, 9, 10))
            /\ ValidDate(ParseNat(SubSeq(s, 1, 4)), ParseNat(SubSeq(s, 6, 7)),
                         ParseNat(SubSeq(s, 9, 10)))
         THEN Returned(Date(ParseNat(SubSeq(s, 1, 4)), ParseNat(SubSeq(s, 6, 7)),
                            ParseNat(SubSeq(s, 9, 10))))
    ELSE Raised("DateParseError")

(***************************************************************************)
(* The DataFrame pd.read_csv returns: columns, and rows of cells.          *)
(***************************************************************************)
Cell(s) == [nan |-> FALSE, s |-> s]
Empty == [nan |-> TRUE, s |-> ""]

\* str(row[col]): 'nan' for a missing value.  A number of a column that
\* also holds missing values prints with a trailing '.0', which float()
\* reads as the same number; the cell keeps the integer literal.
PyStr(cell) == IF cell.nan THEN "nan" ELSE cell.s

\* for encoding in encodings: try pd.read_csv(...): the first encoding
\* that reads the file, 0 when none does (df is None)
RECURSIVE EncodingLoop(_, _)
EncodingLoop(i, readable) ==
    IF i > Len(Encodings) THEN 0
    ELSE IF Encodings[i] \in readable THEN i
    ELSE EncodingLoop(i + 1, readable)

\* df.columns = [col.strip().lower().replace(' ', '_') for col in df.columns]
CleanColumns(columns) ==
    [i \in DOMAIN columns |-> Replace(Lower(Strip(columns[i])), " ", "_")]

\* next((col for col in df.columns if <some name in col>), None): the
\* position of the column, 0 for None
RECURSIVE FirstColumn(_, _, _)
FirstColumn(columns, i, names) ==
    IF i > Len(columns) THEN 0
    ELSE IF \E n \in names : Contains(n, columns[i]) THEN i
    ELSE FirstColumn(columns, i + 1, names)

IncomeWords == { "credit", "received", "refund", "cashback", "salary" }

DescriptionLimit == 200

\* str(row[amount_col]).replace(',', '').replace('₹', '').replace('Rs', '').strip()
amount_str(cell) ==
    Strip(Replace(Replace(Replace(PyStr(cell), ",", ""), "₹", ""), "Rs", ""))

\* the income words looked for in the description as it is written
trans_type_cased(description) ==
    IF \E word \in IncomeWords : Contains(word, description)
    THEN "income" ELSE "expense"

\* trans_type = 'expense', 'income' if any income word is in
\* description.lower()
trans_type(description) ==
    IF \E word \in IncomeWords : Contains(word, Lower(description))
    THEN "income" ELSE "expense"

Skip == [skip |-> TRUE, tx |-> << >>]
Keep(tx) == [skip |-> FALSE, tx |-> << tx >>]

\* the body of `for idx, row in df.iterrows()`: one row gives a
\* transaction or is skipped (continue, or an exception caught and printed)
ProcessRow(columns, row) ==
    LET date_col == FirstColumn(columns, 1, { "date" })
        amount_col == FirstColumn(columns, 1, { "amount", "debit", "credit" })
        desc_col == FirstColumn(columns, 1, { "description", "narration", "particular" })
    IN
    IF date_col = 0 THEN Skip
    ELSE LET parsed_date == to_datetime_dayfirst(Strip(PyStr(row[date_col]))) IN
    IF parsed_date.raised THEN Skip
    ELSE IF amount_col = 0 THEN Skip
    ELSE LET parsed == float(amount_str(row[amount_col])) IN
    IF parsed.raised THEN Skip
    ELSE LET amount == abs(parsed.value) IN
    IF LeZero(amount) THEN Skip
    ELSE LET description ==
                 IF desc_col # 0 /\ ~row[desc_col].nan
                 THEN PyStr(row[desc_col]) ELSE "Transaction"
             category == categorize_transaction(Str(description)).value
         IN  Keep([date |-> parsed_date.value,
                     description |-> Prefix(description, DescriptionLimit),
                     amount |-> amount,
                     category |-> category,
                     type |-> trans_type(description)])

RECURSIVE RowLoop(_, _, _)
RowLoop(columns, rows, i) ==
    IF i > Len(rows) THEN << >>
    ELSE ProcessRow(columns, rows[i]).tx \o RowLoop(columns, rows, i + 1)

\* process_csv without the check `if not transactions: raise ValueError`
process_csv_unchecked(readable, frame) ==
    IF EncodingLoop(1, readable) = 0
    THEN Raised("CSV processing error: Could not read CSV file with any encoding")
    ELSE Returned(RowLoop(CleanColumns(frame.columns), frame.rows, 1))

\* process_csv(filepath): every exception leaves as
\* Exception("CSV processing error: ...")
process_csv(readable, frame) ==
    IF EncodingLoop(1, readable) = 0
    THEN Raised("CSV processing error: Could not read CSV file with any encoding")
    ELSE LET transactions == RowLoop(CleanColumns(frame.columns), frame.rows, 1) IN
         IF transactions = << >>
         THEN Raised("CSV processing error: No valid transactions could be processed from the CSV")
         ELSE Returned(transactions)

(***************************************************************************)
(* utils/data_processor.py.  process_transactions works on the columns of  *)
(* the frame.  A column read from CSV text has a numeric dtype when every  *)
(* cell of it is empty or an integer literal, and dtype object otherwise   *)
(* (a frame without rows has object columns only).                         *)
(***************************************************************************)
IsNumberText(s) == IsDigits(Unsigned(s))

NumberOf(s) == IF Head(s) = "-" THEN 0 - ParseNat(Unsigned(s)) ELSE ParseNat(Unsigned(s))

ColumnCells(frame, j) == [r \in DOMAIN frame.rows |-> frame.rows[r][j]]

IsNumeric(cells) ==
    /\ cells # << >>
    /\ \A r \in DOMAIN cells : cells[r].nan \/ IsNumberText(cells[r].s)

\* A pandas Timestamp: a calendar day and the nanoseconds past its start.
Timestamp(y, m, d, ns) == [nat |-> FALSE, y |-> y, m |-> m, d |-> d, ns |-> ns]
NaTStamp == [nat |-> TRUE, y |-> 0, m |-> 0, d |-> 0, ns |-> 0]

\* pd.Timestamp.now(): the moment of processing
Now == Timestamp(2024, 1, 10, 0)

\* pd.to_datetime(text, errors='coerce'): month first, and day first when
\* the first number is no month; the other texts of the model are words or
\* numbers outside the years a Timestamp holds, which coerce to NaT
to_datetime_coerce(s) ==
    IF /\ Len(s) = 10
       /\ SubSeq(s, 3, 3) = "/" /\ SubSeq(s, 6, 6) = "/"
       /\ IsDigits(SubSeq(s, 1, 2)) /\ IsDigits(SubSeq(s, 4, 5))
       /\ IsDigits(SubSeq(s, 7, 10))
    THEN LET a == ParseNat(SubSeq(s, 1, 2))
             b == ParseNat(SubSeq(s, 4, 5))
             y == ParseNat(SubSeq(s, 7, 10))
         IN  IF ValidDate(y, a, b) THEN Timestamp(y, a, b, 0)
             ELSE IF ValidDate(y, b, a) THEN Timestamp(y, b, a, 0)
             ELSE NaTStamp
    ELSE IF /\ Len(s) = 10
            /\ SubSeq(s, 5, 5) = "-" /\ SubSeq(s, 8, 8) = "-"
            /\ IsDigits(SubSeq(s, 1, 4)) /\ IsDigits(SubSeq(s, 6, 7))
            /\ IsDigits(SubSeq(s, 9, 10))
            /\ ValidDate(ParseNat(SubSeq(s, 1, 4)), ParseNat(SubSeq(s, 6, 7)),
                         ParseNat(SubSeq(s, 9, 10)))
         THEN Timestamp(ParseNat(SubSeq(s, 1, 4)), ParseNat(SubSeq(s, 6, 7)),
                        ParseNat(SubSeq(s, 9, 10)), 0)
    ELSE NaTStamp

\* pd.to_datetime(df[col], errors='coerce'): a numeric column is read as
\* nanoseconds since 1970-01-01
ColumnToDatetime(cells) ==
    [r \in DOMAIN cells |->
        IF cells[r].nan THEN NaTStamp
        ELSE IF IsNumeric(cells) THEN Timestamp(1970, 1, 1, NumberOf(cells[r].s))
        ELSE to_datetime_coerce(cells[r].s)]

\* ....notna().sum() > len(df) * 0.8
MostlyDates(cells) ==
    10 * Cardinality({ r \in DOMAIN cells : ~ColumnToDatetime(cells)[r].nat })
        > 8 * Len(cells)

RECURSIVE FirstDateLike(_, _)
FirstDateLike(frame, j) ==
    IF j > Len(frame.columns) THEN 0
    ELSE IF MostlyDates(ColumnCells(frame, j)) THEN j
    ELSE FirstDateLike(frame, j + 1)

RECURSIVE FirstNumeric(_, _)
FirstNumeric(frame, j) ==
    IF j > Len(frame.columns) THEN 0
    ELSE IF IsNumeric(ColumnCells(frame, j)) THEN j
    ELSE FirstNumeric(frame, j + 1)

date_names == { "date", "transaction date", "trans date", "txn date", "value date" }
description_names == { "description", "narration", "remarks", "particulars", "details" }
amount_names == { "amount", "debit", "withdrawal", "txn amount", "transaction amount" }

LowerAll(columns) == [i \in DOMAIN columns |-> Lower(columns[i])]

\* the column _identify_columns takes for the amount, 0 when it finds none
AmountColumn(frame) ==
    IF FirstColumn(LowerAll(frame.columns), 1, amount_names) # 0
    THEN FirstColumn(LowerAll(frame.columns), 1, amount_names)
    ELSE FirstNumeric(frame, 1)

\* _identify_columns(df): the frame with the columns date, description and
\* amount (no table of the model has a balance column).  date_dtype is
\* "object" for a date column taken as it is and "datetime" for one that
\* was inferred or set to now.
_identify_columns(frame) ==
    LET columns == LowerAll(frame.columns)
        date_col == FirstColumn(columns, 1, date_names)
        date_inferred == IF date_col = 0 THEN FirstDateLike(frame, 1) ELSE 0
        desc_col == FirstColumn(columns, 1, description_names)
        amount_col == AmountColumn(frame)
    IN
    IF amount_col = 0 THEN Raised("Could not identify amount column in CSV")
    ELSE Returned(
        [date_dtype |-> IF date_col # 0 THEN "object" ELSE "datetime",
         amount_dtype |->
             IF IsNumeric(ColumnCells(frame, amount_col)) THEN "number" ELSE "object",
         rows |->
             [r \in DOMAIN frame.rows |->
                 [date |->
                      IF date_col # 0 THEN frame.rows[r][date_col]
                      ELSE IF date_inferred # 0
                           THEN ColumnToDatetime(ColumnCells(frame, date_inferred))[r]
                           ELSE Now,
                  description |->
                      IF desc_col # 0 THEN frame.rows[r][desc_col]
                      ELSE Cell("Transaction"),
                  amount |-> frame.rows[r][amount_col]]]])

(***************************************************************************)
(* Ordering of the date column for sort_values: Timestamps by time,        *)
(* strings by code point; missing values last.                             *)
(***************************************************************************)
AsciiOrder == " +,-./0123456789ABCDEFGHIJKLMNOPQRSTUVWXYZ_abcdefghijklmnopqrstuvwxyz"

CodePoints ==
    [c \in { SubSeq(AsciiOrder, i, i) : i \in 1..Len(AsciiOrder) } |->
        CHOOSE i \in 1..Len(AsciiOrder) : SubSeq(AsciiOrder, i, i) = c]

\* the rank of a character; a character outside ASCII ranks after all of it
CodePoint(c) == IF c \in DOMAIN CodePoints THEN CodePoints[c] ELSE Len(AsciiOrder) + 1

RECURSIVE StrLess(_, _)
StrLess(a, b) ==
    IF b = "" THEN FALSE
    ELSE IF a = "" THEN TRUE
    ELSE IF Head(a) = Head(b) THEN StrLess(Tail(a), Tail(b))
    ELSE CodePoint(Head(a)) < CodePoint(Head(b))

StampLess(a, b) ==
    \/ a.y < b.y
    \/ a.y = b.y /\ a.m < b.m
    \/ a.y = b.y /\ a.m = b.m /\ a.d < b.d
    \/ a.y = b.y /\ a.m = b.m /\ a.d = b.d /\ a.ns < b.ns

\* a sorts strictly before b in a column of the given dtype
DateBefore(dtype, a, b) ==
    IF dtype = "datetime"
    THEN ~a.nat /\ (b.nat \/ StampLess(a, b))
    ELSE ~a.nan /\ (b.nan \/ StrLess(a.s, b.s))

\* the insertion of row x into the sorted rows, after the rows of its date
\* (sort_values sorts with numpy's quicksort, which sorts the short columns
\* of the model by insertion)
RECURSIVE Insert(_, _, _)
Insert(dtype, sorted, x) ==
    IF sorted = << >> THEN << x >>
    ELSE IF DateBefore(dtype, x.date, sorted[Len(sorted)].date)
         THEN Insert(dtype, SubSeq(sorted, 1, Len(sorted) - 1), x)
                  \o << sorted[Len(sorted)] >>
         ELSE sorted \o << x >>

\* df.sort_values('date')
RECURSIVE sort_values(_, _)
sort_values(dtype, rows) ==
    IF rows = << >> THEN << >>
    ELSE Insert(dtype, sort_values(dtype, SubSeq(rows, 1, Len(rows) - 1)), rows[Len(rows)])

\* _clean_data(df): the amount of a returned row is a float, its
\* description a str
_clean_data(frame) ==
    LET HasAmount(row) == ~row.amount.nan
        dropped == SelectSeq(frame.rows, HasAmount)
    IN
    IF frame.amount_dtype = "object" /\ dropped # << >>
    THEN Raised("bad operand type for abs(): 'str'")
    ELSE LET absolute == [r \in DOMAIN dropped |->
                             [dropped[r] EXCEPT !.amount = abs(Number(NumberOf(@.s)))]]
             Positive(row) == GtZero(row.amount)
             positive == SelectSeq(absolute, Positive)
             described == [r \in DOMAIN positive |->
                             [positive[r] EXCEPT !.description =
                                 IF @.nan THEN "" ELSE Strip(Lower(@.s))]]
         IN  Returned([date_dtype |-> frame.date_dtype,
                       rows |-> sort_values(frame.date_dtype, described)])

RECURSIVE SumAmounts(_)
SumAmounts(rows) ==
    IF rows = << >> THEN 0 ELSE rows[1].amount.v + SumAmounts(Tail(rows))

\* df.groupby('date')['amount'].sum(): the sums of the days, in date order
\* (rows are sorted by date)
RECURSIVE DailyTotals(_)
DailyTotals(rows) ==
    IF rows = << >> THEN << >>
    ELSE LET SameDay(row) == row.date = rows[1].date
             OtherDay(row) == row.date # rows[1].date
         IN  << SumAmounts(SelectSeq(rows, SameDay)) >> \o DailyTotals(SelectSeq(rows, OtherDay))

\* process_transactions(df)
process_transactions(frame) ==
    LET stripped == [frame EXCEPT !.columns =
                        [i \in DOMAIN @ |-> Strip(Lower(@[i]))]]
        identified == _identify_columns(stripped)
    IN
    IF identified.raised
    THEN Raised("Error processing transactions: " \o identified.value)
    ELSE LET cleaned == _clean_data(identified.value) IN
    IF cleaned.raised
    THEN Raised("Error processing transactions: " \o cleaned.value)
    ELSE LET rows == [r \in DOMAIN cleaned.value.rows |->
                         [date |-> cleaned.value.rows[r].date,
                          description |-> cleaned.value.rows[r].description,
                          amount |-> cleaned.value.rows[r].amount,
                          category |->
                              _categorize_transaction(
                                  Str(cleaned.value.rows[r].description)).value]]
             Dated(row) == ~row.date.nat
         IN
    IF cleaned.value.date_dtype = "object"
    THEN Raised("Error processing transactions: Can only use .dt accessor with datetimelike values")
    ELSE IF SelectSeq(rows, Dated) = << >>
    THEN Raised("Error processing transactions: NaTType does not support strftime")
    ELSE Returned(
        [transactions |-> rows,
         total_spending |-> SumAmounts(rows),
         category_breakdown |->
             [c \in { rows[r].category : r \in DOMAIN rows } |->
                 LET InCategory(row) == row.category = c
                 IN  SumAmounts(SelectSeq(rows, InCategory))],
         daily_totals |-> DailyTotals(SelectSeq(rows, Dated))])

(***************************************************************************)
(* POST /upload for current_user.  stored holds the rows of the table      *)
(* transaction that belong to current_user.  The session autoflushes, so   *)
(* the query of the loop sees the rows added earlier in the same request;  *)
(* the columns date and amount are NOT NULL and of type Date and Float: a  *)
(* NaT date or a NaN amount (bound as NULL) makes the statement fail.      *)
(***************************************************************************)
NoResponse == [status |-> 0, body |-> [success |-> FALSE]]

DbAccepts(trans_data) == ~trans_data.date.nat /\ ~trans_data.amount.nan

SameKey(row, trans_data) ==
    /\ row.date = trans_data.date
    /\ row.amount = trans_data.amount
    /\ row.description = trans_data.description

\* the query without the flush: it sees the committed rows only
ExistingCommitted(session, trans_data) ==
    \E r \in DOMAIN session.committed : SameKey(session.committed[r], trans_data)

\* Transaction.query.filter_by(user_id, date, amount, description).first()
\* is not None; the query flushes the session first, so it sees the rows
\* added and not yet committed
Existing(session, trans_data) ==
    \/ \E r \in DOMAIN session.committed : SameKey(session.committed[r], trans_data)
    \/ \E r \in DOMAIN session.added : SameKey(session.added[r], trans_data)

\* the row added with the description lower-cased
NewTransactionLowered(trans_data) ==
    [date |-> trans_data.date,
     description |-> Lower(trans_data.description),
     amount |-> trans_data.amount,
     category |-> trans_data.category,
     transaction_type |-> trans_data.type]

\* the row Transaction(...) adds for trans_data
NewTransaction(trans_data) ==
    [date |-> trans_data.date,
     description |-> trans_data.description,
     amount |-> trans_data.amount,
     category |-> trans_data.category,
     transaction_type |-> trans_data.type]

\* for trans_data in transactions: ... ; the session after the loop
RECURSIVE SaveLoop(_, _, _)
SaveLoop(transactions, i, session) ==
    IF i > Len(transactions) \/ session.failed THEN session
    ELSE IF ~DbAccepts(transactions[i])
         THEN [session EXCEPT !.failed = TRUE]
    ELSE IF ~Existing(session, transactions[i])
         THEN SaveLoop(transactions, i + 1,
                       [session EXCEPT !.added = @ \o << NewTransaction(transactions[i]) >>,
                                       !.count = @ + 1])
         ELSE SaveLoop(transactions, i + 1, [session EXCEPT !.skipped = @ + 1])

SuccessMessage(count, skipped) ==
    "Successfully imported " \o ToString(count) \o " transactions"
        \o (IF skipped > 0 THEN " (" \o ToString(skipped) \o " duplicates skipped)" ELSE "")

\* upload() with the rows flushed before the failure left in the table
upload_without_rollback(table, transactions) ==
    IF transactions.raised
    THEN [table |-> table,
          response |-> [status |-> 500,
                        body |-> [success |-> FALSE,
                                  error |-> "Processing error: " \o transactions.value]]]
    ELSE IF transactions.value = << >>
    THEN [table |-> table,
          response |-> [status |-> 400,
                        body |-> [success |-> FALSE,
                                  error |-> "No valid transactions found. Please check your CSV format."]]]
    ELSE LET session == SaveLoop(transactions.value, 1,
                                 [committed |-> table, added |-> << >>,
                                  count |-> 0, skipped |-> 0, failed |-> FALSE])
         IN
    IF session.failed
    THEN [table |-> session.committed \o session.added,
          response |-> [status |-> 500,
                        body |-> [success |-> FALSE,
                                  error |-> "Processing error: (sqlite3) statement failed"]]]
    ELSE [table |-> session.committed \o session.added,
          response |-> [status |-> 200,
                        body |-> [success |-> TRUE,
                                  message |-> SuccessMessage(session.count, session.skipped),
                                  count |-> session.count,
                                  skipped |-> session.skipped,
                                  total |-> Len(transactions.value)]]]

\* upload(), from `transactions = processor.process_csv(filepath)` on: the
\* table after the request and the response to it
upload(table, transactions) ==
    IF transactions.raised
    THEN [table |-> table,
          response |-> [status |-> 500,
                        body |-> [success |-> FALSE,
                                  error |-> "Processing error: " \o transactions.value]]]
    ELSE IF transactions.value = << >>
    THEN [table |-> table,
          response |-> [status |-> 400,
                        body |-> [success |-> FALSE,
                                  error |-> "No valid transactions found. Please check your CSV format."]]]
    ELSE LET session == SaveLoop(transactions.value, 1,
                                 [committed |-> table, added |-> << >>,
                                  count |-> 0, skipped |-> 0, failed |-> FALSE])
         IN
    IF session.failed
    THEN \* db.session.rollback()
         [table |-> table,
          response |-> [status |-> 500,
                        body |-> [success |-> FALSE,
                                  error |-> "Processing error: (sqlite3) statement failed"]]]
    ELSE \* db.session.commit()
         [table |-> session.committed \o session.added,
          response |-> [status |-> 200,
                        body |-> [success |-> TRUE,
                                  message |-> SuccessMessage(session.count, session.skipped),
                                  count |-> session.count,
                                  skipped |-> session.skipped,
                                  total |-> Len(transactions.value)]]]

(***************************************************************************)
(* utils/predictor.py.  A float is the exact fraction n/d it stands for,   *)
(* in lowest terms with d > 0, or nan: sums, products and comparisons are  *)
(* those of the numbers, without the rounding of the last bits.            *)
(***************************************************************************)
RECURSIVE Gcd(_, _)
Gcd(a, b) == IF b = 0 THEN a ELSE Gcd(b, a % b)

Magnitude(n) == IF n < 0 THEN 0 - n ELSE n

Frac(n, d) ==
    LET g == Gcd(Magnitude(n), Magnitude(d))
        sign == IF d < 0 THEN 0 - 1 ELSE 1
    IN  [nan |-> FALSE, n |-> sign * (n \div g), d |-> sign * (d \div g)]

Float(k) == Frac(k, 1)

NotANumber == [nan |-> TRUE, n |-> 0, d |-> 1]

\* a.n/a.d + b.n/b.d over the least common denominator, g = Gcd(a.d, b.d)
PlusOver(a, b, g) == Frac(a.n * (b.d \div g) + b.n * (a.d \div g), (a.d \div g) * b.d)

Plus(a, b) == IF a.nan \/ b.nan THEN NotANumber ELSE PlusOver(a, b, Gcd(a.d, b.d))

Negative(a) == [a EXCEPT !.n = 0 - a.n]

Minus(a, b) == Plus(a, Negative(b))

Times(a, b) == IF a.nan \/ b.nan THEN NotANumber ELSE Frac(a.n * b.n, a.d * b.d)

\* a / k for a count k; numpy gives nan for 0 / 0
Over(a, k) == IF a.nan \/ k = 0 THEN NotANumber ELSE Frac(a.n, a.d * k)

\* a.n/a.d < b.n/b.d over the least common denominator
LessOver(a, b, g) == a.n * (b.d \div g) < b.n * (a.d \div g)

\* a < b, a <= b, a > b; every comparison with nan is False
Less(a, b) == ~a.nan /\ ~b.nan /\ LessOver(a, b, Gcd(a.d, b.d))

LessEq(a, b) == ~a.nan /\ ~b.nan /\ ~LessOver(b, a, Gcd(a.d, b.d))

Greater(a, b) == Less(b, a)

\* sum(values); the additions are exact, so they are grouped by halves
RECURSIVE Sum(_)
Sum(values) ==
    IF values = << >> THEN Float(0)
    ELSE IF Len(values) = 1 THEN values[1]
    ELSE Plus(Sum(SubSeq(values, 1, Len(values) \div 2)),
              Sum(SubSeq(values, (Len(values) \div 2) + 1, Len(values))))

\* np.mean(values)
Mean(values) == Over(Sum(values), Len(values))

\* values[-n:]
LastN(values, n) ==
    IF Len(values) <= n THEN values ELSE SubSeq(values, Len(values) - n + 1, Len(values))

\* Python None, and a value that is not None
PyNone == [is_none |-> TRUE, value |-> << >>]
Some(v) == [is_none |-> FALSE, value |-> v]

(***************************************************************************)
(* The DataFrame given to the engine: columns, and rows of a date (a       *)
(* calendar day, which pd.to_datetime reads as the Timestamp of its        *)
(* midnight) and an amount.                                                *)
(***************************************************************************)
DateLess(a, b) ==
    \/ a.y < b.y
    \/ a.y = b.y /\ a.m < b.m
    \/ a.y = b.y /\ a.m = b.m /\ a.d < b.d

\* the day after: one step of freq='D'
NextDay(date) ==
    IF date.d < DaysInMonth(date.y, date.m) THEN Date(date.y, date.m, date.d + 1)
    ELSE IF date.m < 12 THEN Date(date.y, date.m + 1, 1)
    ELSE Date(date.y + 1, 1, 1)

\* pd.date_range(start, end, freq='D')
RECURSIVE date_range(_, _)
date_range(start, end) ==
    IF DateLess(end, start) THEN << >>
    ELSE << start >> \o date_range(NextDay(start), end)

\* daily_spending['date'].min() and .max()
MinDate(rows) ==
    rows[CHOOSE i \in DOMAIN rows : \A j \in DOMAIN rows : ~DateLess(rows[j].date, rows[i].date)].date

MaxDate(rows) ==
    rows[CHOOSE i \in DOMAIN rows : \A j \in DOMAIN rows : ~DateLess(rows[i].date, rows[j].date)].date

\* groupby('date')['amount'].first() at one date
RECURSIVE AmountOnFirst(_, _)
AmountOnFirst(rows, date) ==
    IF rows = << >> THEN 0
    ELSE IF rows[1].date = date THEN rows[1].amount
    ELSE AmountOnFirst(Tail(rows), date)

\* df.groupby('date')['amount'].sum() at one date; a date of the range
\* without rows is missing after the merge and filled with 0
RECURSIVE AmountOn(_, _)
AmountOn(rows, date) ==
    IF rows = << >> THEN 0
    ELSE (IF rows[1].date = date THEN rows[1].amount ELSE 0) + AmountOn(Tail(rows), date)

\* the grouped frame alone, without the merge into the range of all days
prepare_data_grouped(frame) ==
    IF \A c \in DOMAIN frame.columns : frame.columns[c] # "date" THEN PyNone
    ELSE IF frame.rows = << >> THEN PyNone
    ELSE LET HasRows(date) == \E r \in DOMAIN frame.rows : frame.rows[r].date = date
             range == SelectSeq(date_range(MinDate(frame.rows), MaxDate(frame.rows)), HasRows)
         IN  Some([i \in DOMAIN range |->
                      [date |-> range[i], amount |-> AmountOn(frame.rows, range[i])]])

\* prepare_data(df): the daily series, or None after an exception (no date
\* column; or no rows, where min() and max() are NaT and date_range raises)
prepare_data(frame) ==
    IF \A c \in DOMAIN frame.columns : frame.columns[c] # "date" THEN PyNone
    ELSE IF frame.rows = << >> THEN PyNone
    ELSE LET range == date_range(MinDate(frame.rows), MaxDate(frame.rows)) IN
         Some([i \in DOMAIN range |->
                  [date |-> range[i], amount |-> AmountOn(frame.rows, range[i])]])

(***************************************************************************)
(* LSTMPredictor.  A loaded model is the function its network computes     *)
(* from a window of scaled values: the mean of the window, a negative      *)
(* value, nan, or an exception.  A loaded scaler is a MinMaxScaler fitted  *)
(* to amounts from 0 to data_max.                                          *)
(***************************************************************************)
sequence_length == 7

NoModel == [loaded |-> FALSE, net |-> ""]
Model(net) == [loaded |-> TRUE, net |-> net]

NoScaler == [loaded |-> FALSE, data_max |-> 0]
Scaler(data_max) == [loaded |-> TRUE, data_max |-> data_max]

\* the scaler of the file models/lstm_model_scaler.pkl
FittedScaler == Scaler(200)

\* what the network of the model file computes: the value a week before
\* the day predicted, a negative constant, nan, or an error in predict
Networks == { "weekly", "negative", "nan", "raise" }

NoPredictor == [constructed |-> FALSE, model |-> NoModel, scaler |-> NoScaler]

\* load_model() falling back to a default scaler when the scaler file is
\* absent
load_model_default_scaler(env) ==
    IF (env.has_tensorflow /\ env.model_file = "corrupt") \/ env.scaler_file = "corrupt"
    THEN [model |-> NoModel, scaler |-> NoScaler]
    ELSE [model |-> IF env.has_tensorflow /\ env.model_file # "absent"
                    THEN Model(env.model_file) ELSE NoModel,
          scaler |-> FittedScaler]

\* load_model(): a file that cannot be loaded raises, and the handler sets
\* both attributes to None
load_model(env) ==
    LET load_model_file == env.has_tensorflow /\ env.model_file # "absent"
        load_scaler_file == env.has_sklearn /\ env.scaler_file # "absent"
    IN
    IF \/ load_model_file /\ env.model_file = "corrupt"
       \/ load_scaler_file /\ env.scaler_file = "corrupt"
    THEN [model |-> NoModel, scaler |-> NoScaler]
    ELSE [model |-> IF load_model_file THEN Model(env.model_file) ELSE NoModel,
          scaler |-> IF load_scaler_file THEN FittedScaler ELSE NoScaler]

\* LSTMPredictor(model_path): __init__ ends with self.load_model()
LSTMPredictor(env) ==
    [constructed |-> TRUE, model |-> load_model(env).model, scaler |-> load_model(env).scaler]

\* the files load_model() read from storage: load_model(self.model_path)
\* and joblib.load(self.scaler_path) returned; the scaler file is not
\* reached when the model file raised
FilesRead(env) ==
    LET load_model_file == env.has_tensorflow /\ env.model_file # "absent"
        load_scaler_file == env.has_sklearn /\ env.scaler_file # "absent"
        model_raised == load_model_file /\ env.model_file = "corrupt"
    IN  [model |-> IF load_model_file /\ ~model_raised THEN 1 ELSE 0,
         scaler |-> IF ~model_raised /\ load_scaler_file /\ env.scaler_file # "corrupt"
                    THEN 1 ELSE 0]

\* the reads of the process after one more LSTMPredictor(...)
Loaded(loads, env) ==
    [model |-> loads.model + FilesRead(env).model,
     scaler |-> loads.scaler + FilesRead(env).scaler]

\* self.model.predict(current_sequence)[0, 0]
model_predict(net, window) ==
    IF net = "raise" THEN Raised("InvalidArgumentError")
    ELSE IF net = "nan" THEN Returned(NotANumber)
    ELSE IF net = "negative" THEN Returned(Frac(0 - 1, 2))
    ELSE Returned(window[1])

\* an iteration that appends the prediction and leaves the window as it was
IterationKeepsWindow(current_sequence, next_pred) ==
    IF next_pred.raised
    THEN [raised |-> TRUE, predictions |-> << >>, calls |-> 1,
          current_sequence |-> current_sequence]
    ELSE [raised |-> FALSE, predictions |-> << next_pred.value >>, calls |-> 1,
          current_sequence |-> current_sequence]

\* one iteration of `for _ in range(days):` for what model.predict did:
\* the prediction appended and the window rolled, unless the call raised
Iteration(current_sequence, next_pred) ==
    IF next_pred.raised
    THEN [raised |-> TRUE, predictions |-> << >>, calls |-> 1,
          current_sequence |-> current_sequence]
    ELSE [raised |-> FALSE, predictions |-> << next_pred.value >>, calls |-> 1,
          current_sequence |-> Tail(current_sequence) \o << next_pred.value >>]

\* the iterations `first` followed by the iterations `rest`
Joined(first, rest) ==
    [raised |-> rest.raised,
     predictions |-> IF rest.raised THEN << >> ELSE first.predictions \o rest.predictions,
     calls |-> first.calls + rest.calls,
     current_sequence |-> rest.current_sequence]

\* `for _ in range(days):` for k iterations from current_sequence: the
\* predictions made, the number of predict calls, whether a call raised,
\* and the window left.  The iterations are run as the first half of them
\* followed by the others; a call that raised ends the loop.
RECURSIVE PredictLoop(_, _, _)
FollowedBy(net, first, k) ==
    IF first.raised THEN first ELSE Joined(first, PredictLoop(net, first.current_sequence, k))

PredictLoop(net, current_sequence, k) ==
    IF k = 0
    THEN [raised |-> FALSE, predictions |-> << >>, calls |-> 0,
          current_sequence |-> current_sequence]
    ELSE IF k = 1
    THEN Iteration(current_sequence, model_predict(net, current_sequence))
    ELSE FollowedBy(net, PredictLoop(net, current_sequence, k \div 2), k - (k \div 2))

\* np.maximum(x, 0); nan stays nan
Maximum0(x) == IF Less(x, Float(0)) THEN Float(0) ELSE x

\* lstm_prediction(daily_data, days): the dict returned or None, and the
\* number of model.predict calls made
lstm_prediction(self, daily, horizon) ==
    IF ~self.model.loaded \/ ~self.scaler.loaded
    THEN [value |-> PyNone, calls |-> 0]
    ELSE LET scaled_data ==
                 [i \in DOMAIN daily |-> Over(Float(daily[i].amount), self.scaler.data_max)]
         IN
    IF Len(scaled_data) < sequence_length
    THEN [value |-> PyNone, calls |-> 0]
    ELSE LET loop == PredictLoop(self.model.net, LastN(scaled_data, sequence_length), horizon)
         IN
    IF loop.raised
    THEN [value |-> PyNone, calls |-> loop.calls]
    ELSE LET predictions ==
                 [i \in DOMAIN loop.predictions |->
                     Maximum0(Times(loop.predictions[i], Float(self.scaler.data_max)))]
         IN  [value |-> Some([predictions |-> predictions,
                              daily_average |-> Mean(predictions),
                              total_predicted |-> Sum(predictions),
                              method |-> "lstm",
                              confidence |-> 85,
                              confidence_level |-> "high"]),
              calls |-> loop.calls]

(***************************************************************************)
(* statistical_prediction.  np.random.normal(0, scale) is scale times a    *)
(* standard normal draw z; it raises ValueError for a negative scale.  The *)
(* draws of a call follow one of a few patterns of whole z.                *)
(***************************************************************************)
weekly_multipliers ==
    << Frac(10, 10), Frac(9, 10), Frac(9, 10), Frac(9, 10), Frac(9, 10),
       Frac(11, 10), Frac(12, 10) >>

Draws == { "zero", "up", "down", "floor", "mixed" }

\* the standard normal draw of forecast day `day` (from 0)
Draw(pattern, day) ==
    IF pattern = "zero" THEN 0
    ELSE IF pattern = "up" THEN 1
    ELSE IF pattern = "down" THEN 0 - 1
    ELSE IF pattern = "floor" THEN 0 - 15
    ELSE IF day % 2 = 0 THEN 2 ELSE 0 - 15

Square(x) == Times(x, x)

\* np.std(amounts) ** 2 for overall_avg = np.mean(amounts)
Variance(amounts, overall_avg) ==
    Mean([i \in DOMAIN amounts |-> Square(Minus(amounts[i], overall_avg))])

\* cv < p/q for cv = std_dev / overall_avg, overall_avg > 0: compared by
\* the squares
CvBelow(variance, overall_avg, p, q) ==
    Less(variance, Times(Square(overall_avg), Frac(p * p, q * q)))

\* `cv = std_dev / overall_avg if overall_avg > 0 else 1` and the
\* confidence of its tier
Confidence(variance, overall_avg) ==
    IF ~Greater(overall_avg, Float(0)) THEN 50
    ELSE IF CvBelow(variance, overall_avg, 3, 10) THEN 80
    ELSE IF CvBelow(variance, overall_avg, 5, 10) THEN 70
    ELSE IF CvBelow(variance, overall_avg, 8, 10) THEN 60
    ELSE 50

\* recent_7 * 0.4 + recent_14 * 0.3 + recent_30 * 0.2 + overall_avg * 0.1
WeightedAverage(recent_7, recent_14, recent_30, overall_avg) ==
    Plus(Plus(Times(recent_7, Frac(4, 10)), Times(recent_14, Frac(3, 10))),
         Plus(Times(recent_30, Frac(2, 10)), Times(overall_avg, Frac(1, 10))))

\* the `else:` branch, for 14 days and more
WeightedTrend(amounts, overall_avg, recent_7, recent_14) ==
    [base_prediction |->
         WeightedAverage(recent_7, recent_14,
                         IF Len(amounts) >= 30 THEN Mean(LastN(amounts, 30)) ELSE recent_14,
                         overall_avg),
     trend |-> Times(Minus(recent_7, recent_14), Frac(1, 10)),
     confidence |-> Confidence(Variance(amounts, overall_avg), overall_avg),
     method_detail |-> "weighted_trend"]

\* the tiers with the simple average kept up to 9 days
ApproachFromTen(amounts, overall_avg) ==
    IF Len(amounts) < 10
    THEN [base_prediction |-> overall_avg, trend |-> Float(0),
          confidence |-> 40, method_detail |-> "simple_average"]
    ELSE IF Len(amounts) < 14
    THEN [base_prediction |-> Plus(Times(Mean(LastN(amounts, 7)), Frac(7, 10)),
                                   Times(overall_avg, Frac(3, 10))),
          trend |-> Float(0),
          confidence |-> 55, method_detail |-> "recent_weighted"]
    ELSE WeightedTrend(amounts, overall_avg, Mean(LastN(amounts, 7)), Mean(LastN(amounts, 14)))

\* `if len(amounts) < 7: ... elif len(amounts) < 14: ... else: ...`
Approach(amounts, overall_avg) ==
    IF Len(amounts) < 7
    THEN [base_prediction |-> overall_avg, trend |-> Float(0),
          confidence |-> 40, method_detail |-> "simple_average"]
    ELSE IF Len(amounts) < 14
    THEN [base_prediction |-> Plus(Times(Mean(LastN(amounts, 7)), Frac(7, 10)),
                                   Times(overall_avg, Frac(3, 10))),
          trend |-> Float(0),
          confidence |-> 55, method_detail |-> "recent_weighted"]
    ELSE WeightedTrend(amounts, overall_avg, Mean(LastN(amounts, 7)), Mean(LastN(amounts, 14)))

\* daily_pred of forecast day `day` (from 0) before the random variation
DailyPred(approach, n, day) ==
    IF n >= 14
    THEN Plus(Times(approach.base_prediction, weekly_multipliers[(day % 7) + 1]),
              Times(Times(approach.trend, Float(day + 1)), Frac(2, 100)))
    ELSE Times(approach.base_prediction, weekly_multipliers[(day % 7) + 1])

\* max(0, daily_pred + variation)
Max0(x) == IF Greater(x, Float(0)) THEN x ELSE Float(0)

\* daily_pred + np.random.normal(0, daily_pred * 0.1) for the draw z
Varied(daily_pred, z) == Plus(daily_pred, Times(Times(daily_pred, Frac(1, 10)), Float(z)))

ConfidenceLevel(confidence) ==
    IF confidence > 75 THEN "high" ELSE IF confidence > 60 THEN "medium" ELSE "low"

\* [value] * days
Repeat(value, horizon) == [i \in 1..horizon |-> value]

\* a handler that reports the confidence of the sequence model
SafeFallbackConfident(fallback_daily, horizon, error) ==
    [predictions |-> Repeat(fallback_daily, horizon),
     daily_average |-> fallback_daily,
     total_predicted |-> Times(fallback_daily, Float(horizon)),
     method |-> "error_fallback",
     confidence |-> 85,
     confidence_level |-> "high",
     error |-> error]

\* the dict of `except Exception as e:` for fallback_daily
SafeFallback(fallback_daily, horizon, error) ==
    [predictions |-> Repeat(fallback_daily, horizon),
     daily_average |-> fallback_daily,
     total_predicted |-> Times(fallback_daily, Float(horizon)),
     method |-> "error_fallback",
     confidence |-> 30,
     confidence_level |-> "low",
     error |-> error]

\* the dict returned after the loop
StatisticalResult(predictions, approach, overall_avg) ==
    [predictions |-> predictions,
     daily_average |-> Mean(predictions),
     total_predicted |-> Sum(predictions),
     base_prediction |-> approach.base_prediction,
     overall_average |-> overall_avg,
     method |-> "statistical",
     method_detail |-> approach.method_detail,
     confidence |-> approach.confidence,
     confidence_level |-> ConfidenceLevel(approach.confidence)]

\* `for day in range(days):` for the daily_pred of each day before the
\* variation; np.random.normal raises ValueError for a scale below 0
Predictions(daily_pred, approach, overall_avg, horizon, pattern) ==
    IF \E i \in 1..horizon : Less(Times(daily_pred[i], Frac(1, 10)), Float(0))
    THEN SafeFallback(overall_avg, horizon, "scale < 0")
    ELSE StatisticalResult([i \in 1..horizon |-> Max0(Varied(daily_pred[i], Draw(pattern, i - 1)))],
                           approach, overall_avg)

\* the body of statistical_prediction after `if len(amounts) == 0:`
Statistical(amounts, approach, overall_avg, horizon, pattern) ==
    Predictions([i \in 1..horizon |-> DailyPred(approach, Len(amounts), i - 1)],
                approach, overall_avg, horizon, pattern)

Amounts(daily) == [i \in DOMAIN daily |-> Float(daily[i].amount)]

\* statistical_prediction(daily_data, days)
statistical_prediction(daily, horizon, pattern) ==
    IF Len(daily) = 0
    THEN [predictions |-> Repeat(Float(100), horizon),
          daily_average |-> Float(100),
          total_predicted |-> Float(100 * horizon),
          method |-> "fallback",
          confidence |-> 30,
          confidence_level |-> "low"]
    ELSE Statistical(Amounts(daily), Approach(Amounts(daily), Mean(Amounts(daily))),
                     Mean(Amounts(daily)), horizon, pattern)

\* the validation step replacing the daily average and the predictions only
ValidateKeepsTotal(stat, avg_spending, horizon) ==
    IF LessEq(stat.daily_average, Float(0))
    THEN [stat EXCEPT !.daily_average = avg_spending,
                      !.predictions = Repeat(avg_spending, horizon)]
    ELSE stat

\* a validation step for negative daily averages only
ValidateNegativeOnly(stat, avg_spending, horizon) ==
    IF Less(stat.daily_average, Float(0))
    THEN [stat EXCEPT !.daily_average = avg_spending,
                      !.total_predicted = Times(avg_spending, Float(horizon)),
                      !.predictions = Repeat(avg_spending, horizon)]
    ELSE stat

\* the `# Validate result` step of predict_spending
Validate(stat, avg_spending, horizon) ==
    IF LessEq(stat.daily_average, Float(0))
    THEN [stat EXCEPT !.daily_average = avg_spending,
                      !.total_predicted = Times(avg_spending, Float(horizon)),
                      !.predictions = Repeat(avg_spending, horizon)]
    ELSE stat

NoInference == [value |-> PyNone, calls |-> 0]

\* `if lstm_result:`
SuccessfulAny(returned) == ~returned.is_none

\* `if lstm_result and lstm_result.get('daily_average', 0) > 0:`
Successful(returned) ==
    ~returned.is_none /\ Greater(returned.value.daily_average, Float(0))

\* predict_spending after prepare_data returned a series with rows, for
\* what the lstm_prediction call, if made, returned
Forecast(prepared, lstm, daily, horizon, pattern) ==
    [daily_data |-> prepared, lstm_result |-> lstm.value, calls |-> lstm.calls,
     result |-> IF Successful(lstm.value) THEN lstm.value.value
                ELSE Validate(statistical_prediction(daily, horizon, pattern),
                              Mean(Amounts(daily)), horizon)]

\* `if HAS_TENSORFLOW and self.model and self.scaler:` and
\* `if len(daily_data) >= self.sequence_length:`
Attempt(env, self, daily) ==
    /\ env.has_tensorflow /\ self.model.loaded /\ self.scaler.loaded
    /\ Len(daily) >= sequence_length

Prepared(env, self, prepared, horizon, pattern) ==
    IF prepared.is_none \/ Len(prepared.value) = 0
    THEN [daily_data |-> prepared, lstm_result |-> PyNone, calls |-> 0,
          result |-> SafeFallback(Float(150), horizon, "No valid data for prediction")]
    ELSE Forecast(prepared,
                  IF Attempt(env, self, prepared.value)
                  THEN lstm_prediction(self, prepared.value, horizon)
                  ELSE NoInference,
                  prepared.value, horizon, pattern)

\* predict_spending(df, days): the dict returned, with the daily series,
\* the value of lstm_result and the number of model.predict calls of the run
predict_spending(env, self, frame, horizon, pattern) ==
    Prepared(env, self, prepare_data(frame), horizon, pattern)

(***************************************************************************)
(* POST /predict.  The frame is the result of the query for the expense    *)
(* transactions of current_user in the last 90 days.                       *)
(***************************************************************************)
PredictDays == 30

\* `# Validate and clean the result`
CleanResult(dict, data_points_used) ==
    [daily_average |-> dict.daily_average,
     total_predicted |->
         IF LessEq(dict.total_predicted, Float(0)) /\ Greater(dict.daily_average, Float(0))
         THEN Times(dict.daily_average, Float(PredictDays))
         ELSE dict.total_predicted,
     confidence |-> dict.confidence,
     confidence_level |-> dict.confidence_level,
     method |-> dict.method,
     predictions |-> dict.predictions,
     data_points_used |-> data_points_used,
     message |->
         IF dict.method = "lstm" THEN "Predictions powered by LSTM neural network"
         ELSE IF dict.method = "statistical"
              THEN "Predictions using statistical analysis with trend recognition"
              ELSE "Predictions using historical average"]

\* the request after the predictor's predict_spending returned
Predicted(self, run, data_points_used) ==
    [called |-> TRUE,
     predictor |-> self,
     run |-> run,
     response |-> [status |-> 200,
                   body |-> [success |-> TRUE,
                             predictions |-> CleanResult(run.result, data_points_used)]]]

\* predict(): the response, and the predictor of the request with the run
\* of its predict_spending (none when the request is answered 400)
predict(env, frame, pattern) ==
    IF Len(frame.rows) < 3
    THEN [called |-> FALSE,
          response |-> [status |-> 400,
                        body |-> [success |-> FALSE,
                                  error |-> "Need at least 3 days of transaction history for predictions"]]]
    ELSE Predicted(LSTMPredictor(env),
                   predict_spending(env, LSTMPredictor(env), frame, PredictDays, pattern),
                   Len(frame.rows))

(***************************************************************************)
(* Descriptions given to the classifier: up to MaxWords words joined by a  *)
(* space, or None.                                                         *)
(***************************************************************************)
Words == { "Swiggy", "UBER", "grocery", "Store", "book", "refund",
           "mutual", "fund", "xyz" }

RECURSIVE Join(_)
Join(ws) ==
    IF ws = << >> THEN ""
    ELSE IF Len(ws) = 1 THEN ws[1]
    ELSE ws[1] \o " " \o Join(Tail(ws))

WordSeqs(n) == UNION { [1..k -> Words] : k \in 0..n }

Descriptions == { Str(Join(ws)) : ws \in WordSeqs(MaxWords) } \cup { None }

EmptyDf == [columns |-> << >>, rows |-> << >>]

(***************************************************************************)
(* The tables given to ingestion: a header layout and up to MaxRows rows   *)
(* drawn from a pool that holds well-formed rows and rows with a zero,     *)
(* negative, empty or unreadable amount cell, an empty or unreadable date  *)
(* cell, an empty description cell, and descriptions with an income word   *)
(* in capitals or inside a longer word.                                    *)
(***************************************************************************)
Row(date, amount, desc) == [date |-> date, amount |-> amount, desc |-> desc]

RowPool ==
    { Row(Cell("05/01/2024"), Cell("250"), Cell("Swiggy order")),
      Row(Cell("2024-01-03"), Cell("1,200"), Cell("SALARY uber")),
      Row(Cell("06/01/2024"), Cell("-400"), Cell("grocery store")),
      Row(Cell("06/01/2024"), Cell("0"), Cell("atm")),
      Row(Cell("07/01/2024"), Empty, Cell("atm")),
      Row(Cell("07/01/2024"), Cell("n/a"), Cell("atm")),
      Row(Cell("31/02/2024"), Cell("900"), Cell("atm")),
      Row(Empty, Cell("900"), Cell("atm")),
      Row(Cell("04/01/2024"), Cell("Rs 30"), Empty),
      Row(Cell("08/01/2024"), Cell("75"), Cell("Accredited book")) }

Column(name, field) == [name |-> name, field |-> field]

Layouts ==
    { << Column("Txn Date", "date"), Column("Narration", "desc"), Column(" Debit Amount", "amount") >>,
      << Column("Date", "date"), Column("Details", "desc"), Column("Value", "amount") >>,
      << Column("Posted", "date"), Column("Particulars", "desc"), Column("Amount", "amount") >>,
      << Column("Date", "date"), Column("Credit", "amount") >> }

FrameOf(layout, recs) ==
    [columns |-> [i \in DOMAIN layout |-> layout[i].name],
     rows |-> [r \in DOMAIN recs |-> [i \in DOMAIN layout |-> recs[r][layout[i].field]]]]

RowSeqs(n) == UNION { [1..k -> RowPool] : k \in 0..n }

\* six rows under headers that name no date column: the dates are
\* inferred from the first column, where five of six cells parse
MostlyDated ==
    FrameOf(<< Column("Posted", "date"), Column("Particulars", "desc"), Column("Amount", "amount") >>,
            [r \in 1..6 |->
                IF r = 3 THEN Row(Cell("31/02/2024"), Cell("900"), Cell("atm"))
                ELSE Row(Cell("05/01/2024"), Cell("250"), Cell("Swiggy order"))])

Tables ==
    { FrameOf(layout, recs) : layout \in Layouts, recs \in RowSeqs(MaxRows) }
    \cup { MostlyDated }

\* the sets of encodings that read a file: none (the file cannot be read at
\* all), all but utf-8, all
DecodableChoices ==
    { {}, { "latin-1", "iso-8859-1", "cp1252" },
      { "utf-8", "latin-1", "iso-8859-1", "cp1252" } }

ClassifierIdle ==
    /\ arg_description = None
    /\ app_category = NotCalled
    /\ utils_category = NotCalled

IngestionIdle ==
    /\ decodable = {}
    /\ df = EmptyDf
    /\ csv_result = NotCalled
    /\ utils_result = NotCalled

UploadIdle ==
    /\ stored = << >>
    /\ response = NoResponse
    /\ upload_folder = {}
    /\ uploads = 0

(***************************************************************************)
(* The engine's inputs: the libraries and artifact files of the process,   *)
(* the transaction history (a frame without columns, as pd.DataFrame([])   *)
(* gives; up to MaxHistory transactions in any order, several on a day and *)
(* days apart, with amounts of either sign as the edit and API routes      *)
(* store them; runs of one amount on consecutive days) and the horizon.    *)
(***************************************************************************)
Environments ==
    { [has_tensorflow |-> TRUE, has_sklearn |-> TRUE, model_file |-> m, scaler_file |-> "fitted"] :
        m \in { "absent", "corrupt" } \cup Networks }
    \cup { [has_tensorflow |-> TRUE, has_sklearn |-> TRUE, model_file |-> m, scaler_file |-> s] :
             m \in { "absent", "weekly" }, s \in { "absent", "corrupt" } }
    \cup { [has_tensorflow |-> FALSE, has_sklearn |-> TRUE,
            model_file |-> "weekly", scaler_file |-> "fitted"],
           [has_tensorflow |-> TRUE, has_sklearn |-> FALSE,
            model_file |-> "weekly", scaler_file |-> "fitted"] }

HistoryDates == { Date(2024, 1, 28), Date(2024, 2, 10) }

HistoryAmounts == { 100, 0 - 100 }

HistoryRows == { [date |-> d, amount |-> a] : d \in HistoryDates, a \in HistoryAmounts }

HistoryFrame(rows) == [columns |-> << "date", "amount" >>, rows |-> rows]

\* n consecutive days from 2024-01-28, up to 14, with one transaction each
Flat(n, amount) ==
    [i \in 1..n |-> [date |-> date_range(Date(2024, 1, 28), Date(2024, 2, 10))[i],
                     amount |-> amount]]

\* n consecutive days from 2024-01-28, up to 14, with one transaction each,
\* of the amounts low and high in turn
Alternating(n, low, high) ==
    [i \in 1..n |-> [date |-> date_range(Date(2024, 1, 28), Date(2024, 2, 10))[i],
                     amount |-> IF i % 2 = 1 THEN low ELSE high]]

Histories ==
    { EmptyDf }
    \cup { HistoryFrame(rows) : rows \in UNION { [1..k -> HistoryRows] : k \in 0..MaxHistory } }
    \cup { HistoryFrame(Flat(7, 100)), HistoryFrame(Flat(14, 40)),
           HistoryFrame(<< [date |-> Date(2024, 2, 3), amount |-> 100],
                           [date |-> Date(2024, 1, 28), amount |-> 40] >>),
           HistoryFrame(Flat(3, 40)), HistoryFrame(Flat(3, 0 - 100)),
           HistoryFrame(Alternating(14, 70, 130)), HistoryFrame(Alternating(14, 40, 160)),
           HistoryFrame(<< [date |-> Date(2024, 1, 28), amount |-> 100],
                           [date |-> Date(2024, 2, 28), amount |-> 100] >>),
           HistoryFrame(<< [date |-> Date(2024, 1, 28), amount |-> 40],
                           [date |-> Date(2024, 1, 28), amount |-> 0 - 100],
                           [date |-> Date(2024, 2, 10), amount |-> 100] >>) }

\* .order_by(Transaction.date.asc())
OrderedByDate(rows) ==
    ~\E i, j \in DOMAIN rows : i < j /\ DateLess(rows[j].date, rows[i].date)

\* the history is what the query of POST /predict returned
QueryResult == history # EmptyDf /\ OrderedByDate(history.rows)

Horizons == { 1, MaxHorizon }

Patterns == Draws

NoLoads == [model |-> 0, scaler |-> 0]

\* a request not yet received
NotReceived == [pc |-> "idle", predictor |-> NoPredictor, response |-> NoResponse]

ServeIdle ==
    /\ artifact_loads = NoLoads
    /\ serving = [r \in 1..MaxRequests |-> NotReceived]

\* an entry point of training not yet called
NotTrained == [called |-> FALSE, returned |-> FALSE, daily |-> PyNone,
               sequences |-> PyNone, written |-> {}]

NoDatabase == [users |-> 0, transactions |-> << >>]

TrainIdle ==
    /\ database = NoDatabase
    /\ training = [train_lstm_model |-> NotTrained, train_model |-> NotTrained]

ForecastIdle ==
    /\ environment = [has_tensorflow |-> FALSE, has_sklearn |-> FALSE,
                      model_file |-> "absent", scaler_file |-> "absent"]
    /\ predictor = NoPredictor
    /\ history = EmptyDf
    /\ days = PredictDays
    /\ daily_data = PyNone
    /\ lstm_result = PyNone
    /\ predict_calls = 0
    /\ result = NotCalled
    /\ predict_response = NoResponse

InitClassify ==
    /\ arg_description \in Descriptions
    /\ app_category = NotCalled
    /\ utils_category = NotCalled
    /\ IngestionIdle
    /\ UploadIdle
    /\ ForecastIdle
    /\ ServeIdle
    /\ TrainIdle

Categorize ==
    /\ ~app_category.done
    /\ app_category' = categorize_transaction(arg_description)
    /\ UNCHANGED << train_vars, arg_description, utils_category, decodable, df, csv_result,
                    utils_result, stored, response, upload_folder, uploads,
                    forecast_vars, serve_vars >>

CategorizeUtils ==
    /\ ~utils_category.done
    /\ utils_category' = _categorize_transaction(arg_description)
    /\ UNCHANGED << train_vars, arg_description, app_category, decodable, df, csv_result,
                    utils_result, stored, response, upload_folder, uploads,
                    forecast_vars, serve_vars >>

NextClassify == Categorize \/ CategorizeUtils

SpecClassify == InitClassify /\ [][NextClassify]_vars

InitCsv ==
    /\ ClassifierIdle
    /\ decodable \in DecodableChoices
    /\ df \in (IF decodable = {} THEN { EmptyDf } ELSE Tables)
    /\ csv_result = NotCalled
    /\ utils_result = NotCalled
    /\ UploadIdle
    /\ ForecastIdle
    /\ ServeIdle
    /\ TrainIdle

ProcessCsv ==
    /\ ~csv_result.done
    /\ csv_result' = process_csv(decodable, df)
    /\ UNCHANGED << train_vars, arg_description, app_category, utils_category, decodable, df,
                    utils_result, stored, response, upload_folder, uploads,
                    forecast_vars, serve_vars >>

ProcessTransactions ==
    /\ ~utils_result.done
    /\ utils_result' = process_transactions(df)
    /\ UNCHANGED << train_vars, arg_description, app_category, utils_category, decodable, df,
                    csv_result, stored, response, upload_folder, uploads,
                    forecast_vars, serve_vars >>

NextCsv == ProcessCsv \/ ProcessTransactions

SpecCsv == InitCsv /\ [][NextCsv]_vars

(***************************************************************************)
(* The files uploaded: up to MaxUploadRows rows under one header layout;    *)
(* two rows of the pool spell the same transaction.                        *)
(***************************************************************************)
UploadPool ==
    { Row(Cell("05/01/2024"), Cell("250"), Cell("Swiggy order")),
      Row(Cell("05/01/2024"), Cell("Rs 250"), Cell("Swiggy order")),
      Row(Cell("2024-01-03"), Cell("1,200"), Cell("SALARY uber")),
      Row(Cell("07/01/2024"), Cell("n/a"), Cell("atm")),
      Row(Cell("07/01/2024"), Empty, Cell("atm")) }

UploadLayout ==
    << Column("Txn Date", "date"), Column("Narration", "desc"), Column("Debit Amount", "amount") >>

UploadFiles ==
    { FrameOf(UploadLayout, recs) :
        recs \in UNION { [1..k -> UploadPool] : k \in 0..MaxUploadRows } }

AllEncodings == { Encodings[i] : i \in DOMAIN Encodings }

\* process_csv on the files of the model, tabulated
ProcessedUploads == [frame \in UploadFiles |-> process_csv(AllEncodings, frame)]

ProcessedUpload(readable, frame) ==
    IF readable = {} THEN process_csv(readable, frame) ELSE ProcessedUploads[frame]

InitUpload ==
    /\ ClassifierIdle
    /\ IngestionIdle
    /\ UploadIdle
    /\ ForecastIdle
    /\ ServeIdle
    /\ TrainIdle

\* POST /upload without a file, or with a file whose name does not end in
\* .csv: answered 400 before anything is saved
UploadBadRequest ==
    /\ uploads < MaxUploads
    /\ \E error \in { "No file provided", "No file uploaded", "No file selected",
                      "Please upload a CSV file" } :
          response' = [status |-> 400, body |-> [success |-> FALSE, error |-> error]]
    /\ uploads' = uploads + 1
    /\ UNCHANGED << train_vars, arg_description, app_category, utils_category, decodable, df,
                    csv_result, utils_result, stored, upload_folder,
                    forecast_vars, serve_vars >>

\* POST /upload with a .csv file: df and decodable describe the file of
\* the request
Upload ==
    /\ uploads < MaxUploads
    /\ \E readable \in { {}, AllEncodings } :
       \E frame \in (IF readable = {} THEN { EmptyDf } ELSE UploadFiles) :
       LET filepath == uploads + 1
           saved == upload_folder \cup { filepath }
           transactions == ProcessedUpload(readable, frame)
           done == upload(stored, transactions)
       IN  /\ decodable' = readable
           /\ df' = frame
           /\ csv_result' = transactions
           /\ stored' = done.table
           /\ response' = done.response
           /\ upload_folder' = saved \ { filepath }
    /\ uploads' = uploads + 1
    /\ UNCHANGED << train_vars, arg_description, app_category, utils_category, utils_result,
                    forecast_vars, serve_vars >>

NextUpload == Upload \/ UploadBadRequest

SpecUpload == InitUpload /\ [][NextUpload]_vars

(***************************************************************************)
(* The forecasting engine: a predictor is constructed in an environment    *)
(* and predict_spending is asked for a horizon, or POST /predict does both *)
(* for the history its query returned.                                     *)
(***************************************************************************)
InitForecast ==
    /\ ClassifierIdle
    /\ IngestionIdle
    /\ UploadIdle
    /\ environment \in Environments
    /\ predictor = NoPredictor
    /\ history \in Histories
    /\ days \in Horizons
    /\ daily_data = PyNone
    /\ lstm_result = PyNone
    /\ predict_calls = 0
    /\ result = NotCalled
    /\ predict_response = NoResponse
    /\ ServeIdle
    /\ TrainIdle

\* LSTMPredictor(model_path)
Construct ==
    /\ ~predictor.constructed
    /\ predictor' = LSTMPredictor(environment)
    /\ artifact_loads' = Loaded(artifact_loads, environment)
    /\ UNCHANGED << train_vars, arg_description, app_category, utils_category, decodable, df,
                    csv_result, utils_result, stored, response, upload_folder, uploads,
                    environment, history, days, daily_data, lstm_result,
                    predict_calls, result, predict_response, serving >>

\* the variables a run of predict_spending leaves behind
Ran(run) ==
    /\ daily_data' = run.daily_data
    /\ lstm_result' = run.lstm_result
    /\ predict_calls' = run.calls
    /\ result' = Returned(run.result)

\* predictor.predict_spending(history, days)
PredictSpending ==
    /\ predictor.constructed
    /\ ~result.done
    /\ \E pattern \in Patterns :
           Ran(predict_spending(environment, predictor, history, days, pattern))
    /\ UNCHANGED << train_vars, arg_description, app_category, utils_category, decodable, df,
                    csv_result, utils_result, stored, response, upload_folder, uploads,
                    environment, predictor, history, days, predict_response,
                    serve_vars >>

\* the request answered before a predictor is constructed
Refused(done) ==
    /\ ~done.called
    /\ predict_response' = done.response

\* POST /predict with fewer than 3 expense transactions in the query
\* result: answered 400, no predictor constructed
PostPredictTooFew ==
    /\ QueryResult
    /\ ~predictor.constructed
    /\ predict_response = NoResponse
    /\ \E pattern \in Patterns : Refused(predict(environment, history, pattern))
    /\ UNCHANGED << train_vars, arg_description, app_category, utils_category, decodable, df,
                    csv_result, utils_result, stored, response, upload_folder, uploads,
                    environment, predictor, history, days, daily_data, lstm_result,
                    predict_calls, result, serve_vars >>

\* the request answered after its predictor ran predict_spending
Answered(done) ==
    /\ done.called
    /\ predictor' = done.predictor
    /\ days' = PredictDays
    /\ Ran(done.run)
    /\ predict_response' = done.response

\* POST /predict: the request constructs its predictor and asks it for 30
\* days
PostPredict ==
    /\ QueryResult
    /\ ~predictor.constructed
    /\ predict_response = NoResponse
    /\ \E pattern \in Patterns : Answered(predict(environment, history, pattern))
    /\ artifact_loads' = Loaded(artifact_loads, environment)
    /\ UNCHANGED << train_vars, arg_description, app_category, utils_category, decodable, df,
                    csv_result, utils_result, stored, response, upload_folder, uploads,
                    environment, history, serving >>

NextForecast == Construct \/ PredictSpending \/ PostPredictTooFew \/ PostPredict

SpecForecast == InitForecast /\ [][NextForecast]_vars

(***************************************************************************)
(* One process serving POST /predict requests.  A request is received and  *)
(* constructs its predictor (app.py:1221), then runs predict_spending and  *)
(* answers; requests of different threads interleave between the two.      *)
(***************************************************************************)
ServeHistories ==
    { HistoryFrame(Flat(3, 40)), HistoryFrame(Flat(7, 100)),
      HistoryFrame(<< [date |-> Date(2024, 1, 28), amount |-> 40],
                      [date |-> Date(2024, 2, 3), amount |-> 100] >>) }

InitServe ==
    /\ ClassifierIdle
    /\ IngestionIdle
    /\ UploadIdle
    /\ environment \in Environments
    /\ predictor = NoPredictor
    /\ history \in ServeHistories
    /\ days = PredictDays
    /\ daily_data = PyNone
    /\ lstm_result = PyNone
    /\ predict_calls = 0
    /\ result = NotCalled
    /\ predict_response = NoResponse
    /\ ServeIdle
    /\ TrainIdle

\* predict() up to predictor = LSTMPredictor(model_path=...): the request
\* is answered 400 when the query returned fewer than 3 transactions
Receive(r) ==
    /\ serving[r].pc = "idle"
    /\ IF Len(history.rows) < 3
       THEN /\ serving' = [serving EXCEPT ![r] =
                   [pc |-> "answered", predictor |-> NoPredictor,
                    response |-> predict(environment, history, "zero").response]]
            /\ UNCHANGED artifact_loads
       ELSE /\ serving' = [serving EXCEPT ![r] =
                   [pc |-> "constructed", predictor |-> LSTMPredictor(environment),
                    response |-> NoResponse]]
            /\ artifact_loads' = Loaded(artifact_loads, environment)
    /\ UNCHANGED << train_vars, arg_description, app_category, utils_category, decodable, df,
                    csv_result, utils_result, stored, response, upload_folder, uploads,
                    forecast_vars >>

\* predict() from result = predictor.predict_spending(df, days=30) to the
\* response
Respond(r) ==
    /\ serving[r].pc = "constructed"
    /\ \E pattern \in Patterns :
          serving' = [serving EXCEPT ![r] =
              [pc |-> "answered", predictor |-> @.predictor,
               response |-> predict(environment, history, pattern).response]]
    /\ UNCHANGED << train_vars, arg_description, app_category, utils_category, decodable, df,
                    csv_result, utils_result, stored, response, upload_folder, uploads,
                    forecast_vars, artifact_loads >>

NextServe == \E r \in 1..MaxRequests : Receive(r) \/ Respond(r)

SpecServe == InitServe /\ [][NextServe]_vars

(***************************************************************************)
(* Training.  model_trainer.train_lstm_model reads the expense             *)
(* transactions of the first user from the database;                       *)
(* LSTMPredictor.train_model is given them as a DataFrame.  fit_transform  *)
(* maps every amount of the daily series to one scaled value, so the       *)
(* windows are cut here from the amounts themselves.                       *)
(***************************************************************************)
\* create_sequences(data, sequence_length): X and y, one window and its
\* target per i of range(len(data) - sequence_length)
create_sequences_to_the_end(data, length) ==
    [i \in 1..(IF Len(data) >= length THEN Len(data) - length + 1 ELSE 0) |->
        [seq |-> SubSeq(data, i, i + length - 1), target |-> data[Len(data)]]]

create_sequences(data, length) ==
    [i \in 1..(IF Len(data) > length THEN Len(data) - length ELSE 0) |->
        [seq |-> SubSeq(data, i, i + length - 1), target |-> data[i + length]]]

\* what an entry point returns and leaves behind
TrainingRefused(daily, sequences) ==
    [called |-> TRUE, returned |-> FALSE, daily |-> daily, sequences |-> sequences,
     written |-> {}]

TrainingDone(daily, sequences) ==
    [called |-> TRUE, returned |-> TRUE, daily |-> daily, sequences |-> sequences,
     written |-> { "models/lstm_model.h5", "models/lstm_model_scaler.pkl" }]

AmountsOf(daily) == [i \in DOMAIN daily |-> daily[i].amount]

\* from scaled_data to the return, the same in both entry points but for
\* the least number of windows
FitAndSave(daily, least) ==
    LET X == create_sequences(AmountsOf(daily), sequence_length) IN
    IF Len(X) < least THEN TrainingRefused(Some(Len(daily)), Some(Len(X)))
    ELSE TrainingDone(Some(Len(daily)), Some(Len(X)))

\* model_trainer.train_lstm_model(); without scikit-learn the import at the
\* head of the module raises and nothing is called.  prepare_training_data
\* is prepare_data without its try, given rows that have a date
train_lstm_model(env, db) ==
    IF ~env.has_sklearn THEN TrainingRefused(PyNone, PyNone)
    ELSE IF ~env.has_tensorflow THEN TrainingRefused(PyNone, PyNone)
    ELSE IF db.users = 0 THEN TrainingRefused(PyNone, PyNone)
    ELSE IF Len(db.transactions) < 50 THEN TrainingRefused(PyNone, PyNone)
    ELSE LET series == prepare_data(HistoryFrame(db.transactions)).value IN
         IF Len(series) < 30 THEN TrainingRefused(Some(Len(series)), PyNone)
         ELSE FitAndSave(series, 20)

\* LSTMPredictor.train_model(df)
train_model(env, frame) ==
    IF ~env.has_tensorflow \/ ~env.has_sklearn THEN TrainingRefused(PyNone, PyNone)
    ELSE LET series == prepare_data(frame) IN
         IF series.is_none THEN TrainingRefused(PyNone, PyNone)
         ELSE IF Len(series.value) < 30 THEN TrainingRefused(Some(Len(series.value)), PyNone)
         ELSE FitAndSave(series.value, 10)

\* the days of January and February 2024
TrainingDays == date_range(Date(2024, 1, 1), Date(2024, 2, 29))

\* count expense transactions of 100 in date order, one a day from
\* 2024-01-01 until the last day but one of a stretch of span days, the
\* rest on its last day
Spread(count, span) ==
    [i \in 1..count |->
        [date |-> TrainingDays[IF i < count /\ i < span THEN i ELSE span],
         amount |-> 100]]

TransactionCounts == { 2, 30, 49, 50, 51 }

DaySpans == { 1, 6, 7, 8, 29, 30, 31, 50 }

Databases ==
    { [users |-> u, transactions |-> << >>] : u \in { 0, 1 } }
    \cup { [users |-> 1, transactions |-> Spread(count, span)] :
             count \in TransactionCounts, span \in DaySpans }

TrainingEnvironments ==
    { [has_tensorflow |-> t, has_sklearn |-> k, model_file |-> "absent",
       scaler_file |-> "absent"] : t, k \in BOOLEAN }

InitTrain ==
    /\ ClassifierIdle
    /\ IngestionIdle
    /\ UploadIdle
    /\ environment \in TrainingEnvironments
    /\ predictor = NoPredictor
    /\ history = EmptyDf
    /\ days = PredictDays
    /\ daily_data = PyNone
    /\ lstm_result = PyNone
    /\ predict_calls = 0
    /\ result = NotCalled
    /\ predict_response = NoResponse
    /\ ServeIdle
    /\ database \in Databases
    /\ training = [train_lstm_model |-> NotTrained, train_model |-> NotTrained]

\* python model_trainer.py
TrainLstmModel ==
    /\ ~training.train_lstm_model.called
    /\ training' = [training EXCEPT !.train_lstm_model =
                       train_lstm_model(environment, database)]
    /\ UNCHANGED << database, arg_description, app_category, utils_category, decodable, df,
                    csv_result, utils_result, stored, response, upload_folder, uploads,
                    forecast_vars, serve_vars >>

\* LSTMPredictor().train_model(df), df the transactions of the database
TrainModel ==
    /\ ~training.train_model.called
    /\ database.users > 0
    /\ training' = [training EXCEPT !.train_model =
                       train_model(environment, HistoryFrame(database.transactions))]
    /\ UNCHANGED << database, arg_description, app_category, utils_category, decodable, df,
                    csv_result, utils_result, stored, response, upload_folder, uploads,
                    forecast_vars, serve_vars >>

NextTrain == TrainLstmModel \/ TrainModel

SpecTrain == InitTrain /\ [][NextTrain]_vars

(***************************************************************************)
(* Claims about the classifier.                                            *)
(***************************************************************************)
\* The declaration order the specification states for the categories.
ClaimedOrder ==
    << "Food & Dining", "Transportation", "Shopping", "Entertainment",
       "Utilities", "Healthcare", "Groceries", "Education", "Investment",
       "Transfer" >>

KeywordsOf(categories, c) ==
    UNION { { categories[i].keywords[k] : k \in DOMAIN categories[i].keywords } :
            i \in { j \in DOMAIN categories : categories[j].category = c } }

\* positions in ClaimedOrder of the categories with a keyword inside lower(s)
HitCategories(categories, s) ==
    { i \in DOMAIN ClaimedOrder :
        \E kw \in KeywordsOf(categories, ClaimedOrder[i]) : Contains(kw, Lower(s)) }

Min(S) == CHOOSE x \in S : \A y \in S : x <= y

FirstDeclaredMatch(categories, s) ==
    IF HitCategories(categories, s) = {} THEN "Others"
    ELSE ClaimedOrder[Min(HitCategories(categories, s))]

\* C2: for every string description both classifiers return the first
\* category, in the stated declaration order, that has a keyword occurring
\* anywhere in the lower-cased description ('Others' when none has).
C2_FirstDeclaredCategoryWins ==
    arg_description.t = "str" =>
        /\ app_category.done =>
              app_category = Returned(FirstDeclaredMatch(app_categories, arg_description.s))
        /\ utils_category.done =>
              utils_category = Returned(FirstDeclaredMatch(utils_categories, arg_description.s))

\* C2 witness: a description with keywords of several categories has been
\* classified by both implementations.
C2_Witness ==
    /\ arg_description.t = "str"
    /\ app_category.done /\ utils_category.done
    /\ Cardinality(HitCategories(app_categories, arg_description.s)) >= 2
    /\ Cardinality(HitCategories(utils_categories, arg_description.s)) >= 2

NoMatch(categories) ==
    \/ arg_description.t = "none"
    \/ arg_description.s = ""
    \/ HitCategories(categories, arg_description.s) = {}

\* C3: the classifier is total: it never raises, and it returns 'Others'
\* for None, for the empty string and for a description without keyword.
C3_ClassifierTotal ==
    /\ app_category.done =>
          /\ ~app_category.raised
          /\ NoMatch(app_categories) => app_category.value = "Others"
    /\ utils_category.done =>
          /\ ~utils_category.raised
          /\ NoMatch(utils_categories) => utils_category.value = "Others"

(***************************************************************************)
(* Ingestion: what the claims call the resolved columns, a usable amount   *)
(* and an unparseable cell, stated on the table itself.                    *)
(***************************************************************************)
Undecodable == \A i \in DOMAIN Encodings : Encodings[i] \notin decodable

\* df.columns after process_transactions has standardized the names
Standardized(frame) ==
    [frame EXCEPT !.columns = [i \in DOMAIN @ |-> Strip(Lower(@[i]))]]

AppDateColumn == FirstColumn(CleanColumns(df.columns), 1, { "date" })
AppAmountColumn == FirstColumn(CleanColumns(df.columns), 1, { "amount", "debit", "credit" })
AppDescriptionColumn ==
    FirstColumn(CleanColumns(df.columns), 1, { "description", "narration", "particular" })

UtilsDateColumn == FirstColumn(LowerAll(Standardized(df).columns), 1, date_names)
UtilsDescriptionColumn ==
    FirstColumn(LowerAll(Standardized(df).columns), 1, description_names)

\* C1: every transaction returned by process_csv and every row returned by
\* _clean_data has an amount strictly greater than 0; a cell that gives
\* zero, a non-positive value or no usable number never reaches the output.
C1_AmountsPositive ==
    /\ (csv_result.done /\ ~csv_result.raised) =>
          \A i \in DOMAIN csv_result.value : GtZero(csv_result.value[i].amount)
    /\ utils_result.done =>
          LET identified == _identify_columns(Standardized(df)) IN
          ~identified.raised =>
              LET cleaned == _clean_data(identified.value) IN
              ~cleaned.raised =>
                  \A i \in DOMAIN cleaned.value.rows : GtZero(cleaned.value.rows[i].amount)

AmountUnresolved ==
    /\ AppAmountColumn = 0
    /\ FirstColumn(LowerAll(Standardized(df).columns), 1, amount_names) = 0
    /\ FirstNumeric(Standardized(df), 1) = 0

NamesAmountColumn(outcome) ==
    outcome.raised /\ Contains("amount column", Lower(outcome.value))

\* C4: when no column of a readable table with rows can be resolved as
\* the amount column, neither by a header synonym nor by numeric
\* inference, ingestion fails with an error that names the unidentified
\* amount column.
C4_SchemaErrorNamesAmount ==
    (AmountUnresolved /\ ~Undecodable /\ df.rows # << >>) =>
        /\ csv_result.done => NamesAmountColumn(csv_result)
        /\ utils_result.done => NamesAmountColumn(utils_result)

Today == Date(Now.y, Now.m, Now.d)

UsableAmount(row) ==
    LET parsed == float(amount_str(row[AppAmountColumn])) IN
    ~parsed.raised /\ GtZero(abs(parsed.value))

UsableRows == { r \in DOMAIN df.rows : UsableAmount(df.rows[r]) }

\* C5: with the amount column resolved, a table without description
\* column gives every transaction the description 'Transaction', and a
\* table without date column gives every row a transaction dated with the
\* current date; no row is dropped for the missing column.
C5_DefaultsKeepRows ==
    /\ (csv_result.done /\ ~Undecodable /\ AppAmountColumn # 0) =>
          /\ (AppDateColumn = 0 /\ UsableRows # {}) =>
                /\ ~csv_result.raised
                /\ Len(csv_result.value) = Cardinality(UsableRows)
                /\ \A i \in DOMAIN csv_result.value : csv_result.value[i].date = Today
          /\ (AppDescriptionColumn = 0 /\ ~csv_result.raised) =>
                \A i \in DOMAIN csv_result.value :
                    csv_result.value[i].description = "Transaction"
    /\ utils_result.done =>
          LET identified == _identify_columns(Standardized(df)) IN
          ~identified.raised =>
              /\ Len(identified.value.rows) = Len(df.rows)
              /\ UtilsDescriptionColumn = 0 =>
                    \A r \in DOMAIN identified.value.rows :
                        identified.value.rows[r].description = Cell("Transaction")
              /\ (UtilsDateColumn = 0 /\ FirstDateLike(Standardized(df), 1) = 0) =>
                    \A r \in DOMAIN identified.value.rows :
                        identified.value.rows[r].date = Now

\* a cell that cannot be parsed: the parser raises, or it gives no date
\* (NaT) or no number (NaN), as it does for an empty cell
UnparseableDate(cell) ==
    LET parsed == to_datetime_dayfirst(Strip(PyStr(cell))) IN
    parsed.raised \/ parsed.value.nat

UnparseableAmount(cell) ==
    LET parsed == float(amount_str(cell)) IN
    parsed.raised \/ parsed.value.nan

Unparseable(row) ==
    \/ AppDateColumn # 0 /\ UnparseableDate(row[AppDateColumn])
    \/ AppAmountColumn # 0 /\ UnparseableAmount(row[AppAmountColumn])

Parseable(row) == ~Unparseable(row)

\* C6: a row whose date or amount cell cannot be parsed is skipped without
\* raising and the other rows are still processed: the outcome of
\* process_csv equals its outcome on the table without the unparseable
\* rows.
C6_UnparseableRowsSkipped ==
    csv_result.done =>
        csv_result = process_csv(decodable, [df EXCEPT !.rows = SelectSeq(@, Parseable)])

\* the row-level filter of process_csv: both columns are found, both cells
\* are read without an exception and the amount is not <= 0
RowSurvives(row) ==
    /\ AppDateColumn # 0 /\ AppAmountColumn # 0
    /\ ~to_datetime_dayfirst(Strip(PyStr(row[AppDateColumn]))).raised
    /\ LET parsed == float(amount_str(row[AppAmountColumn])) IN
       ~parsed.raised /\ ~LeZero(abs(parsed.value))

Survivors == { r \in DOMAIN df.rows : RowSurvives(df.rows[r]) }

ReportedKeys == { "success", "message", "count", "skipped", "total" }

\* a count the response reports beside count, skipped and total (0 when
\* there is none)
ReportedInvalid(body) ==
    IF DOMAIN body \subseteq ReportedKeys THEN 0
    ELSE body[CHOOSE k \in DOMAIN body \ ReportedKeys : TRUE]

DistinctKeys(rows) ==
    \A i, j \in DOMAIN rows : i # j => ~SameKey(rows[i], rows[j])

\* C9 as stated: the list process_csv returns holds no two transactions
\* with the same (date, amount, description).
C9_NormalizationDeduplicates ==
    (csv_result.done /\ ~csv_result.raised) => DistinctKeys(csv_result.value)

\* C9: process_csv returns one transaction for every surviving row, equal
\* keys included; upload stores each key of the batch once: after a
\* successful upload every key of the batch is stored, and the stored rows
\* hold no key twice.
C9_UploadStoresKeyOnce ==
    /\ (csv_result.done /\ ~csv_result.raised) =>
          Len(csv_result.value) = Cardinality(Survivors)
    /\ DistinctKeys(stored)
    /\ response.status = 200 =>
          \A i \in DOMAIN csv_result.value :
              \E r \in DOMAIN stored : SameKey(stored[r], csv_result.value[i])

\* C9 witness: the first upload, of a file that holds the same transaction
\* twice, has stored it once and skipped the other.
C9_Witness ==
    /\ uploads = 1
    /\ response.status = 200
    /\ ~DistinctKeys(csv_result.value)
    /\ response.body.count >= 1
    /\ response.body.skipped >= 1

\* C10: an upload of the file that the previous, successful upload
\* imported adds no transaction: every transaction of the batch is skipped
\* as a duplicate and the stored rows stay as they are.
C10_ReimportAddsNothing ==
    [][ (response.status = 200 /\ Upload /\ df' = df /\ decodable' = decodable) =>
            /\ stored' = stored
            /\ response'.status = 200
            /\ response'.body.count = 0
            /\ response'.body.skipped = Len(csv_result'.value) ]_vars

\* C10 witness: after a second upload every transaction of the file was
\* skipped and the stored rows are those the file gives on its own.
C10_Witness ==
    /\ uploads = 2
    /\ response.status = 200
    /\ response.body.count = 0
    /\ response.body.skipped = response.body.total
    /\ stored = upload(<< >>, csv_result).table

(***************************************************************************)
(* Ordering of the normalized transactions.                                *)
(***************************************************************************)
Chron(date) == date.y * 10000 + date.m * 100 + date.d

\* C11: the transactions process_csv returns and the rows _clean_data
\* returns are in ascending date order whatever the order of the input
\* rows, and rows with equal dates keep their original relative order.
C11_OutputAscendingStable ==
    /\ (csv_result.done /\ ~csv_result.raised) =>
          \A i, j \in DOMAIN csv_result.value :
              (i < j /\ ~csv_result.value[i].date.nat /\ ~csv_result.value[j].date.nat) =>
                  Chron(csv_result.value[i].date) <= Chron(csv_result.value[j].date)
    /\ utils_result.done =>
          LET identified == _identify_columns(Standardized(df)) IN
          (~identified.raised /\ identified.value.date_dtype = "datetime") =>
              LET rows == identified.value.rows
                  sorted == sort_values("datetime", rows)
              IN  /\ \A i, j \in DOMAIN sorted :
                        i < j => ~DateBefore("datetime", sorted[j].date, sorted[i].date)
                  /\ \A r \in DOMAIN rows :
                        LET SameDate(row) == row.date = rows[r].date IN
                        SelectSeq(sorted, SameDate) = SelectSeq(rows, SameDate)

(***************************************************************************)
(* Claims about the daily series.  The calendar is stated here by the day  *)
(* number within 2024, a leap year.                                        *)
(***************************************************************************)
DaysBeforeMonth == << 0, 31, 60, 91, 121, 152, 182, 213, 244, 274, 305, 335 >>

Ordinal(date) == DaysBeforeMonth[date.m] + date.d

HistoryOrdinals == { Ordinal(history.rows[r].date) : r \in DOMAIN history.rows }

SeriesBuilt == result.done /\ ~daily_data.is_none

\* C12: the daily series of a history with rows has one point for every
\* calendar day from the earliest to the latest transaction date, ascending
\* and one day apart, and a day without transactions has total 0.
C12_SeriesContiguous ==
    (result.done /\ history.rows # << >>) =>
        /\ ~daily_data.is_none
        /\ LET series == daily_data.value IN
           /\ Len(series) >= 1
           /\ \A o \in HistoryOrdinals : Ordinal(series[1].date) <= o
           /\ \A o \in HistoryOrdinals : o <= Ordinal(series[Len(series)].date)
           /\ Ordinal(series[1].date) \in HistoryOrdinals
           /\ Ordinal(series[Len(series)].date) \in HistoryOrdinals
           /\ \A i \in 1..(Len(series) - 1) :
                  Ordinal(series[i + 1].date) = Ordinal(series[i].date) + 1
           /\ \A i \in DOMAIN series :
                  Ordinal(series[i].date) \notin HistoryOrdinals => series[i].amount = 0

\* a history with transactions in January and February and days without
\* any between them
C12_Witness ==
    /\ SeriesBuilt
    /\ \E r \in DOMAIN history.rows : history.rows[r].date = Date(2024, 1, 28)
    /\ \E r \in DOMAIN history.rows : history.rows[r].date = Date(2024, 2, 10)
    /\ Len(daily_data.value) = 14
    /\ \E i \in DOMAIN daily_data.value : daily_data.value[i].amount = 0

RECURSIVE Total(_)
Total(rows) == IF rows = << >> THEN 0 ELSE rows[1].amount + Total(Tail(rows))

\* C13: the totals of the daily series add up to the amounts of the
\* transactions it was built from.
C13_SeriesConservesMoney ==
    SeriesBuilt => Total(daily_data.value) = Total(history.rows)

\* two transactions on one day and a gap before the next
C13_Witness ==
    /\ SeriesBuilt
    /\ \E q, r \in DOMAIN history.rows : q # r /\ history.rows[q].date = history.rows[r].date
    /\ \E i \in DOMAIN daily_data.value :
           Ordinal(daily_data.value[i].date) \notin HistoryOrdinals
    /\ Total(history.rows) # 0

(***************************************************************************)
(* Claims about the forecasting engine.                                    *)
(***************************************************************************)
\* C14: called with an empty transaction list, the engine raises an
\* empty-input error to its caller and returns no result.
C14_EmptyHistoryRaises ==
    (result.done /\ history.rows = << >>) => result.raised

ForecastFields ==
    { "predictions", "daily_average", "total_predicted", "method", "confidence",
      "confidence_level" }

IsForecastResult(dict) ==
    /\ ForecastFields \subseteq DOMAIN dict
    /\ dict.method \in { "lstm", "statistical", "error_fallback" }
    /\ dict.confidence \in 0..100
    /\ dict.confidence_level \in { "high", "medium", "low" }

\* C15: for a history with transactions the engine returns a forecast
\* result and never raises, whatever the model files, the inference or the
\* statistical computation do; a failure shows only as a fallback method
\* with low confidence.
C15_AlwaysReturnsForecast ==
    (result.done /\ history.rows # << >>) =>
        /\ ~result.raised
        /\ IsForecastResult(result.value)
        /\ result.value.method = "error_fallback" =>
               result.value.confidence = 30 /\ result.value.confidence_level = "low"

\* the statistical computation failed (a negative scale for the normal
\* draw) after inference raised
C15_Witness ==
    /\ result.done
    /\ history.rows # << >>
    /\ predict_calls > 0
    /\ lstm_result.is_none
    /\ result.value.method = "error_fallback"

\* C16: every result the engine returns has as many predictions as the
\* horizon asked, each at least 0.
C16_PredictionsNonNegative ==
    result.done =>
        /\ Len(result.value.predictions) = days
        /\ \A i \in DOMAIN result.value.predictions :
               LessEq(Float(0), result.value.predictions[i])

Equal(a, b) == ~a.nan /\ ~b.nan /\ a = b

\* C17: every result the engine returns, and the cleaned result in the
\* response of POST /predict, has total_predicted equal to the sum of its
\* predictions.
C17_TotalIsSum ==
    /\ result.done => Equal(result.value.total_predicted, Sum(result.value.predictions))
    /\ predict_response.status = 200 =>
           Equal(predict_response.body.predictions.total_predicted,
                 Sum(predict_response.body.predictions.predictions))

\* the route answered with a statistical result whose predictions were
\* replaced by the average of the series (all equal, above 0)
C17_Witness ==
    /\ predict_response.status = 200
    /\ result.value.method = "statistical"
    /\ \A i \in DOMAIN result.value.predictions :
           /\ result.value.predictions[i] = result.value.predictions[1]
           /\ Greater(result.value.predictions[i], Float(0))

NoArtifacts == environment.model_file = "absent" /\ environment.scaler_file = "absent"

\* C18: for 7 days of 100 each and no model files, the method is
\* 'statistical', the confidence 55, and every day's prediction after the
\* weekday multiplier and before the random variation is between 85 and 115.
C18_FlatWeekWithin15Percent ==
    (result.done /\ NoArtifacts /\ history = HistoryFrame(Flat(7, 100))) =>
        /\ result.value.method = "statistical"
        /\ result.value.confidence = 55
        /\ \A day \in 0..(days - 1) :
               /\ LessEq(Float(85),
                         Times(result.value.base_prediction, weekly_multipliers[(day % 7) + 1]))
               /\ LessEq(Times(result.value.base_prediction, weekly_multipliers[(day % 7) + 1]),
                         Float(115))

Present(file) == file \notin { "absent", "corrupt" }

BothArtifactsLoaded ==
    /\ environment.has_tensorflow /\ Present(environment.model_file)
    /\ environment.has_sklearn /\ Present(environment.scaler_file)

\* C19: inference is run only when the model and the scaler were both
\* loaded and the daily series has at least 7 points; otherwise no
\* model.predict call is made and the result is not the sequence model's.
C19_InferenceNeedsBothArtifacts ==
    (result.done /\ ~daily_data.is_none) =>
        /\ predict_calls > 0 => BothArtifactsLoaded /\ Len(daily_data.value) >= 7
        /\ ~(BothArtifactsLoaded /\ Len(daily_data.value) >= 7) =>
               /\ predict_calls = 0
               /\ lstm_result.is_none
               /\ result.value.method \in { "statistical", "error_fallback" }

\* the model file is present without its scaler, the series has 7 points
C19_Witness ==
    /\ result.done
    /\ Present(environment.model_file) /\ environment.has_tensorflow
    /\ environment.scaler_file = "absent"
    /\ ~daily_data.is_none /\ Len(daily_data.value) >= 7
    /\ result.value.method = "statistical"

InferenceFailed ==
    /\ predict_calls > 0
    /\ \/ lstm_result.is_none
       \/ ~Greater(lstm_result.value.daily_average, Float(0))

\* C20: when inference raised, or its daily average is not above 0, the
\* engine returns the result of the statistical method, never the sequence
\* model's result or error.
C20_FailedInferenceFallsBack ==
    (result.done /\ InferenceFailed) =>
        /\ ~result.raised
        /\ result.value.method \in { "statistical", "error_fallback" }
        /\ ~lstm_result.is_none => result.value # lstm_result.value
        /\ "error" \in DOMAIN result.value => result.value.error # "InvalidArgumentError"

\* inference returned predictions that were all clipped to 0
C20_Witness ==
    /\ result.done
    /\ predict_calls > 0
    /\ ~lstm_result.is_none
    /\ lstm_result.value.daily_average = Float(0)
    /\ result.value.method = "statistical"


\* the description process_csv reads from a row: the cell of the first
\* description column, 'Transaction' without such a column or cell
RowDescription(row) ==
    IF AppDescriptionColumn # 0 /\ ~row[AppDescriptionColumn].nan
    THEN PyStr(row[AppDescriptionColumn]) ELSE "Transaction"

\* some stretch of the description spells an income word, whatever the case
\* of its letters
SpellsIncomeWord(description) ==
    \E first, last \in 1..Len(description) :
        Lower(SubSeq(description, first, last)) \in IncomeWords

SurvivingRows == SelectSeq(df.rows, RowSurvives)

\* C21: the type of a transaction is 'income' exactly when the description
\* of its row contains one of the five income words as a substring in any
\* case, and 'expense' otherwise, whatever category the row got and
\* whichever column its amount came from.
C21_TypeFromDescriptionAlone ==
    (csv_result.done /\ ~csv_result.raised) =>
        \A k \in DOMAIN csv_result.value :
            csv_result.value[k].type =
                IF SpellsIncomeWord(RowDescription(SurvivingRows[k]))
                THEN "income" ELSE "expense"

\* C21 witness: a returned list holds an income transaction whose word is
\* written in capitals and whose category is Transportation, next to an
\* expense transaction.
C21_Witness ==
    /\ csv_result.done /\ ~csv_result.raised
    /\ \E k \in DOMAIN csv_result.value :
          /\ csv_result.value[k].type = "income"
          /\ csv_result.value[k].category = "Transportation"
          /\ ~\E word \in IncomeWords : Contains(word, csv_result.value[k].description)
    /\ \E k \in DOMAIN csv_result.value : csv_result.value[k].type = "expense"


\* C22: across any sequence or interleaving of forecast requests in one
\* process, each artifact file (model, scaler) is read from storage at
\* most once; later requests reuse what the first successful load gave.
C22_ArtifactsLoadedAtMostOnce ==
    artifact_loads.model <= 1 /\ artifact_loads.scaler <= 1


UtilsAmountColumn == AmountColumn(Standardized(df))

\* the input rows whose amount is neither missing nor zero
RowsWithAmount ==
    { r \in DOMAIN df.rows :
        LET cell == df.rows[r][UtilsAmountColumn] IN
        ~cell.nan /\ NumberOf(cell.s) # 0 }

RECURSIVE SumOfValues(_)
SumOfValues(f) ==
    IF DOMAIN f = {} THEN 0
    ELSE LET k == CHOOSE x \in DOMAIN f : TRUE
         IN  f[k] + SumOfValues([x \in DOMAIN f \ { k } |-> f[x]])

\* C23: the result of process_transactions conserves every cleaned row:
\* it returns as many transactions as the input has rows with a non-null,
\* non-zero amount, and total_spending equals the sum of the returned
\* amounts, the sum of the category_breakdown values and the sum of
\* daily_totals.
C23_ResultConservesRows ==
    (utils_result.done /\ ~utils_result.raised) =>
        LET returned == utils_result.value IN
        /\ Len(returned.transactions) = Cardinality(RowsWithAmount)
        /\ returned.total_spending =
               SumOfValues([k \in DOMAIN returned.transactions |->
                               returned.transactions[k].amount.v])
        /\ returned.total_spending = SumOfValues(returned.category_breakdown)
        /\ returned.total_spending = SumOfValues(returned.daily_totals)


\* the amounts of the daily series given to the statistical method
SeriesAmounts == Amounts(daily_data.value)

\* the mean of the last k points of the series
MeanOfLast(k) == Mean(LastN(SeriesAmounts, k))

\* the square of the coefficient of variation of the series is below
\* (p/10)^2, for a positive mean: the variance is the mean of the squares
\* less the square of the mean
CvUnder(p) ==
    LET mean == Mean(SeriesAmounts)
        squares == Mean([i \in DOMAIN SeriesAmounts |-> Times(SeriesAmounts[i], SeriesAmounts[i])])
    IN  Less(Times(Minus(squares, Times(mean, mean)), Float(100)),
             Times(Times(mean, mean), Float(p * p)))

ConfidenceOfCv ==
    IF CvUnder(3) THEN 80 ELSE IF CvUnder(5) THEN 70 ELSE IF CvUnder(8) THEN 60 ELSE 50

StatisticalReturned ==
    result.done /\ ~result.raised /\ ~daily_data.is_none /\ result.value.method = "statistical"

ReturnedAsBuilt ==
    /\ StatisticalReturned
    /\ \E pattern \in Patterns :
          result.value = statistical_prediction(daily_data.value, days, pattern)

\* the prediction of forecast day i (from 1) before the random variation
PreJitter(i) ==
    DailyPred(Approach(SeriesAmounts, Mean(SeriesAmounts)), Len(SeriesAmounts), i - 1)

Distance(a, b) == IF Less(a, b) THEN Minus(b, a) ELSE Minus(a, b)

\* C25: in the statistical method the final prediction of every forecast
\* day differs from that day's pre-jitter prediction by at most 10% of the
\* pre-jitter prediction, and is never below 0.
C25_JitterWithinTenPercent ==
    ReturnedAsBuilt =>
        \A i \in DOMAIN result.value.predictions :
            /\ ~Less(result.value.predictions[i], Float(0))
            /\ LessEq(Distance(result.value.predictions[i], PreJitter(i)),
                      Times(PreJitter(i), Frac(1, 10)))


\* the statistical result was returned as the loop built it with every
\* random variation drawn as 0
ReturnedWithoutJitter ==
    /\ StatisticalReturned
    /\ result.value = statistical_prediction(daily_data.value, days, "zero")

\* the day of the week, Monday = 1 ... Sunday = 7, of the i-th day after
\* the last day of the series; 2024-01-01 is a Monday
ForecastWeekday(i) ==
    ((Ordinal(daily_data.value[Len(daily_data.value)].date) + i - 1) % 7) + 1

\* the trend adjustment added to the i-th forecast day from 14 points on
TrendAdjustment(i) ==
    IF Len(SeriesAmounts) >= 14
    THEN Times(Times(Approach(SeriesAmounts, Mean(SeriesAmounts)).trend, Float(i)), Frac(2, 100))
    ELSE Float(0)

\* C26: in the statistical method the base prediction of each forecast day
\* is multiplied by the entry of [1.0, 0.9, 0.9, 0.9, 0.9, 1.1, 1.2] for
\* the day of the week of that forecast date (Monday 1.0 ... Sunday 1.2),
\* whatever weekday the history ends on.
C26_MultiplierOfForecastWeekday ==
    ReturnedWithoutJitter =>
        \A i \in DOMAIN result.value.predictions :
            Minus(result.value.predictions[i], TrendAdjustment(i)) =
                Times(result.value.base_prediction, weekly_multipliers[ForecastWeekday(i)])


\* scaler.transform(amounts) of the daily series
ScaledHistory ==
    [i \in DOMAIN daily_data.value |->
        Over(Float(daily_data.value[i].amount), predictor.scaler.data_max)]

\* lstm_prediction ran its loop to the end and returned a dict
InferenceReturned ==
    result.done /\ ~daily_data.is_none /\ predictor.constructed /\ ~lstm_result.is_none

\* C27: inference is autoregressive over a rolling window of length 7: it
\* starts from the last 7 scaled daily values and makes exactly `days`
\* one-step predictions, and before step k + 1 the window is the last 7
\* elements of the scaled history followed by the first k predictions, in
\* order.
C27_RollingWindow ==
    InferenceReturned =>
        /\ predict_calls = days
        /\ Len(lstm_result.value.predictions) = days
        /\ \A k \in 0..(days - 1) :
              LET loop == PredictLoop(predictor.model.net,
                                      LastN(ScaledHistory, sequence_length), k)
              IN  /\ Len(loop.predictions) = k
                  /\ Len(loop.current_sequence) = 7
                  /\ loop.current_sequence = LastN(ScaledHistory \o loop.predictions, 7)

\* C27 witness: the network that answers with the oldest value of its
\* window has made 30 predictions from a series whose last 7 values are
\* not all the same, so the predictions repeat those values in their
\* order.
C27_Witness ==
    /\ InferenceReturned
    /\ predictor.model.net = "weekly"
    /\ predict_calls = PredictDays
    /\ lstm_result.value.predictions[1] # lstm_result.value.predictions[2]
    /\ \A k \in 1..7 :
          lstm_result.value.predictions[k] =
              Float(daily_data.value[Len(daily_data.value) - 7 + k].amount)


\* predict_spending went on to the statistical method: the series has
\* points and no inference result was returned
StatisticalPathTaken ==
    /\ result.done /\ ~result.raised
    /\ ~daily_data.is_none /\ Len(daily_data.value) > 0
    /\ ~Successful(lstm_result)

\* the result is what the engine returns for the statistical result stat
ReturnedFor(stat) ==
    IF LessEq(stat.daily_average, Float(0))
    THEN /\ result.value.daily_average = Mean(SeriesAmounts)
         /\ Len(result.value.predictions) = days
         /\ \A i \in DOMAIN result.value.predictions :
               result.value.predictions[i] = Mean(SeriesAmounts)
         /\ Equal(Over(result.value.total_predicted, days), Mean(SeriesAmounts))
         /\ result.value.method = stat.method
         /\ result.value.confidence = stat.confidence
    ELSE result.value = stat

\* C28: a statistical result whose daily average is zero or negative is
\* replaced before it is returned: the daily average becomes the mean of
\* the daily series, every prediction becomes that mean and the total
\* becomes that mean times the horizon; so the returned daily average is
\* strictly positive whenever the mean of the history is.
C28_NonPositiveAverageReplaced ==
    /\ StatisticalPathTaken =>
          \E pattern \in Patterns :
              ReturnedFor(statistical_prediction(daily_data.value, days, pattern))
    /\ (result.done /\ ~result.raised /\ ~daily_data.is_none /\ Len(daily_data.value) > 0
           /\ Greater(Mean(SeriesAmounts), Float(0))) =>
          Greater(result.value.daily_average, Float(0))

\* C28 witness: every variation of a week of 100 a day was drawn far below
\* zero, the predictions were all clamped to 0, and the result returned
\* has the history mean 100 as daily average and as every prediction.
C28_Witness ==
    /\ StatisticalPathTaken
    /\ Mean(SeriesAmounts) = Float(100)
    /\ statistical_prediction(daily_data.value, days, "floor").daily_average = Float(0)
    /\ result.value.daily_average = Float(100)
    /\ \A i \in DOMAIN result.value.predictions : result.value.predictions[i] = Float(100)
    /\ result.value.total_predicted = Float(100 * days)
    /\ result.value.method = "statistical"

(***************************************************************************)
(* Claims about training.                                                  *)
(***************************************************************************)
EntryPoints == { "train_lstm_model", "train_model" }

\* the libraries are installed and the database has a user
ReadyToTrain ==
    environment.has_tensorflow /\ environment.has_sklearn /\ database.users > 0

\* the days from the first transaction to the last, both counted
DailyPoints ==
    IF database.transactions = << >> THEN 0
    ELSE Ordinal(database.transactions[Len(database.transactions)].date)
           - Ordinal(database.transactions[1].date) + 1

\* the windows of length 7 the daily series yields
Windows == IF DailyPoints > 7 THEN DailyPoints - 7 ELSE 0

\* whether the artifacts were written goes with the return, and the
\* windows cut are 7 fewer than the daily points
OutcomeOf(entry) ==
    /\ training[entry].returned <=>
         training[entry].written = { "models/lstm_model.h5", "models/lstm_model_scaler.pkl" }
    /\ ~training[entry].returned <=> training[entry].written = {}
    /\ ~training[entry].daily.is_none => training[entry].daily.value = DailyPoints
    /\ ~training[entry].sequences.is_none =>
         training[entry].sequences.value = training[entry].daily.value - 7

\* C29 as claimed: with the libraries and a user, an entry point called
\* refuses to train, writing no artifact, exactly when the daily series has
\* fewer than 30 days or yields fewer than 20 windows, and the windows are
\* always 7 fewer than the daily points.
C29_RefusedExactlyWhenShort ==
    \A entry \in EntryPoints :
        training[entry].called /\ ReadyToTrain =>
            /\ ~training[entry].returned <=> (DailyPoints < 30 \/ Windows < 20)
            /\ OutcomeOf(entry)

\* C29: with the libraries and a user, an entry point called refuses to
\* train, writing no artifact, exactly when the daily series has fewer than
\* 30 days (the only series with fewer than 20 windows) or, for
\* train_lstm_model, the user has fewer than 50 expense transactions;
\* otherwise it trains and writes both artifacts; the windows it cuts are 7
\* fewer than the daily points.  Without the libraries it always refuses.
C29_RefusedWhenShortOrFewTransactions ==
    \A entry \in EntryPoints :
        training[entry].called =>
            /\ ReadyToTrain =>
                 (~training[entry].returned <=>
                     \/ DailyPoints < 30
                     \/ Windows < 20
                     \/ entry = "train_lstm_model" /\ Len(database.transactions) < 50)
            /\ ~ReadyToTrain => ~training[entry].returned
            /\ OutcomeOf(entry)

\* train_lstm_model trained on 50 transactions over 30 days, from 23
\* windows, and train_model on the same
C29_Witness ==
    /\ Len(database.transactions) = 50
    /\ DailyPoints = 30
    /\ training.train_lstm_model.returned
    /\ training.train_lstm_model.sequences = Some(23)
    /\ training.train_model.returned
    /\ training.train_model.written # {}

(***************************************************************************)
(* Upload: all of the batch is stored, or none of it.                      *)
(***************************************************************************)
\* C30: an upload that fails, in process_csv or while the batch is saved,
\* leaves the stored transactions as they were and its file removed; one
\* that succeeds reports a count and a number of duplicates that add up to
\* the number of transactions process_csv returned, and stores count rows
\* after those stored before.
C30_UploadAllOrNothing ==
    [][ Upload =>
            /\ upload_folder' = upload_folder
            /\ response'.status # 200 => stored' = stored
            /\ response'.status = 200 =>
                 /\ response'.body.count + response'.body.skipped = Len(csv_result'.value)
                 /\ Len(stored') = Len(stored) + response'.body.count
                 /\ SubSeq(stored', 1, Len(stored)) = stored ]_vars

\* C30 witness: the second upload failed while its batch was saved, after
\* a first transaction of the batch had been added to the session; the
\* transactions of the first upload are stored, that one is not, and no
\* file is left.
C30_Witness ==
    /\ uploads = 2
    /\ response.status = 500
    /\ csv_result.done /\ ~csv_result.raised
    /\ Len(csv_result.value) >= 2
    /\ DbAccepts(csv_result.value[1])
    /\ stored # << >>
    /\ ~\E r \in DOMAIN stored : SameKey(stored[r], csv_result.value[1])
    /\ upload_folder = {}

====
